---- MODULE Spec2Model ----
(***************************************************************************)
(* The DataTable builder (packages/melt/src/lib/builders/DataTable.svelte) *)
(* as a state machine: the four Synced cells (sortBy, sortDirection, page, *)
(* pageSize), the props it reads (data, columns, pagination), the public   *)
(* operations, and the sorted / paginated view computed by the data getter.*)
(***************************************************************************)
EXTENDS Integers, Sequences, FiniteSets

VARIABLES
    data,                 \* props.data: the raw rows (never written by the table)
    pagination,           \* props.pagination (enablePagination)
    sortBySynced,         \* #sortBy        : Synced<string | null>
    sortDirectionSynced,  \* #sortDirection : Synced<"asc" | "desc" | null>
    pageSynced,           \* #page          : Synced<number>
    pageSizeSynced,       \* #pageSize      : Synced<number>
    view,                 \* result of the last read of the data getter (row indices)
    emitted,              \* callbacks invoked by the last operation, in order
    last,                 \* the last operation, its argument and the values it started from
    resizableColumnsProp, \* props.resizableColumns
    columnWidths,         \* #columnWidths     : Map<string, number>
    isResizing,           \* #isResizing       : boolean
    resizingColumnId,     \* #resizingColumnId : string | null
    resizeStartX,         \* #resizeStartX     : number
    resizeStartWidth,     \* #resizeStartWidth : number
    listeners,            \* document listeners of the resize gesture, per event type
    bodyResizingClass,    \* document.body.classList has "resizing"
    bodyCursor,           \* document.body.style.cursor is "col-resize"
    pendingFrames,        \* requestAnimationFrame callbacks not run yet
    pendingTimeouts,      \* setTimeout callbacks not run yet
    resized,              \* the column ids resizeColumn has stored a width for, ever
    handleHeld,           \* a resize handle was pressed and no release came since
    pressed,              \* the press that opened the current session, if it measured the header
    keyboardNavigationProp, \* props.keyboardNavigation
    columnCount,          \* this.columns.length: props.columns is the first columnCount of Columns
    focusedCell,          \* #focusedCell : { rowIndex, colIndex } | null
    returned,             \* what the last call of an attribute builder returned
    pendingFocus,         \* the cells of the tick().then callbacks of #moveFocus not run yet
    activeElement,        \* the cell that has DOM focus, if one has
    colorSynced,          \* ColorPicker #color : Synced<string>
    hsv,                  \* ColorPicker #hsv   : HSV
    saturationPosition    \* ColorPicker #saturationPosition : { x, y }

\* The state of keyboard navigation, and the result of the last builder call.
focusVars == << keyboardNavigationProp, columnCount, focusedCell, returned,
                pendingFocus, activeElement >>

\* The state of column resizing.
resizeVars == << resizableColumnsProp, columnWidths, isResizing, resizingColumnId,
                 resizeStartX, resizeStartWidth, listeners, bodyResizingClass,
                 bodyCursor, pendingFrames, pendingTimeouts, resized, handleHeld,
                 pressed >>

\* The state of the ColorPicker of the page.
pickerVars == << colorSynced, hsv, saturationPosition >>

\* The state of sorting, pagination and the view.
tableVars == << data, pagination, sortBySynced, sortDirectionSynced, pageSynced,
                pageSizeSynced, view >>

vars == << data, pagination, sortBySynced, sortDirectionSynced, pageSynced,
           pageSizeSynced, view, emitted, last, resizableColumnsProp, columnWidths,
           isResizing, resizingColumnId, resizeStartX, resizeStartWidth, listeners,
           bodyResizingClass, bodyCursor, pendingFrames, pendingTimeouts, resized,
           handleHeld, pressed, keyboardNavigationProp, columnCount, focusedCell, returned,
           pendingFocus, activeElement, colorSynced, hsv, saturationPosition >>

----------------------------------------------------------------------------
(* Values *)

\* JavaScript null as the value of sortBy / sortDirection.
NULL == "null"

\* A cell value of a row is null/undefined (<<>>) or a value <<n>>; a string
\* is represented by its collation rank, a number by itself.
Nullish == << >>

IsNullish(v) == v = Nullish

\* extract(value, defaultValue) of a prop that is absent (<< >>) or present
\* (<< v >>, the value it has or its getter returns now).
extract(value, defaultValue) == IF IsNullish(value) THEN defaultValue ELSE value[1]

\* Largest page / pageSize / row count / goToPage target the model enumerates.
MaxPage == 3
MaxPageSize == 5
MaxRows == 10
MaxViewRows == 3

\* The result of x / 0 for x > 0 in Math.ceil(rawData.length / this.pageSize):
\* larger than every page number the model enumerates.
Infinity == 999

----------------------------------------------------------------------------
(* Columns: props.columns, a fixed configuration with every kind of column  *)
(* the sort code and the resize code distinguish. An absent width, minWidth *)
(* or maxWidth is << >>, a present one is << value >>.                      *)

Columns ==
    << [id |-> "name",  accessor |-> "name", sortable |-> "true",      sortFn |-> FALSE, kind |-> "string",
        width |-> << [n |-> 100, unit |-> "px"] >>, resizable |-> "undefined",
        minWidth |-> << 50 >>, maxWidth |-> << 200 >>],
       [id |-> "age",   accessor |-> "age",  sortable |-> "true",      sortFn |-> FALSE, kind |-> "number",
        width |-> << [n |-> 10, unit |-> "%"] >>, resizable |-> "true",
        minWidth |-> << 80 >>, maxWidth |-> << >>],
       [id |-> "rank",  accessor |-> "age",  sortable |-> "true",      sortFn |-> TRUE,  kind |-> "number",
        width |-> << >>, resizable |-> "undefined",
        minWidth |-> << >>, maxWidth |-> << 30 >>],
       [id |-> "notes", accessor |-> "name", sortable |-> "false",     sortFn |-> FALSE, kind |-> "string",
        width |-> << [n |-> 20, unit |-> "%"] >>, resizable |-> "false",
        minWidth |-> << >>, maxWidth |-> << >>],
       [id |-> "email", accessor |-> "name", sortable |-> "undefined", sortFn |-> FALSE, kind |-> "string",
        width |-> << >>, resizable |-> "undefined",
        minWidth |-> << >>, maxWidth |-> << >>] >>

ColumnIds == { Columns[i].id : i \in 1..Len(Columns) }

\* An id that names no column.
UnknownId == "ghost"

\* this.columns.find((col) => col.id === columnId): the index of the first
\* column with that id, 0 when there is none (undefined).
FindColumn(columnId) ==
    IF \E i \in 1..Len(Columns) : Columns[i].id = columnId
    THEN CHOOSE i \in 1..Len(Columns) :
            /\ Columns[i].id = columnId
            /\ \A j \in 1..(i - 1) : Columns[j].id # columnId
    ELSE 0

\* Mutant of IsSortableColumn: only the column's existence is tested.
IsSortableColumn_ExistsOnly(columnId) == FindColumn(columnId) # 0

\* !column || !column.sortable is false: the column exists and its sortable
\* flag is truthy (an absent flag is undefined, which is falsy).
IsSortableColumn(columnId) ==
    /\ FindColumn(columnId) # 0
    /\ Columns[FindColumn(columnId)].sortable = "true"

SortByValues == {NULL} \cup ColumnIds \cup {UnknownId}
SortDirections == {"asc", "desc", NULL}

----------------------------------------------------------------------------
(* Synced: a cell that owns its value, or reads it from the getter it was   *)
(* given.                                                                   *)

\* new Synced({value, onChange, defaultValue}): `given` tells whether a value
\* was passed, `isGetter` whether it is a getter. A getter-bound cell holds
\* the getter's current result in v.
SyncedNew(given, isGetter, value, defaultValue) ==
    [owned |-> ~(given /\ isGetter),
     v     |-> IF given THEN value ELSE defaultValue]

\* get current
SyncedCurrent(cell) == cell.v

\* set current: a self-owned cell stores the value; a getter-bound cell keeps
\* reading its getter. (onChange is invoked by the caller, after the store.)
SyncedWrite(cell, value) ==
    IF cell.owned THEN [cell EXCEPT !.v = value] ELSE cell

sortBy == SyncedCurrent(sortBySynced)
sortDirection == SyncedCurrent(sortDirectionSynced)
page == SyncedCurrent(pageSynced)
pageSize == SyncedCurrent(pageSizeSynced)
enablePagination == pagination

\* The values an operation starts from.
Pre == [sortBy |-> sortBy, sortDirection |-> sortDirection,
        page |-> page, pageSize |-> pageSize, isResizing |-> isResizing]

----------------------------------------------------------------------------
(* Sorting state *)

\* Mutant of getNextSortDirection: desc goes straight back to asc.
getNextSortDirection_SkipsNull(current) ==
    CASE current = "asc"  -> "desc"
      [] current = "desc" -> "asc"
      [] current = NULL   -> "asc"

getNextSortDirection(current) ==
    CASE current = "asc"  -> "desc"
      [] current = "desc" -> NULL
      [] current = NULL   -> "asc"

\* #handleSortChange(id, direction): props.onSortChange?.(id, direction)
handleSortChange(id, direction) == << "onSortChange", id, direction >>

\* Mutant of toggleSort: switching to another column sets the direction and
\* forgets to set sortBy.
toggleSort_KeepsSortBy(columnId) ==
    /\ IF ~IsSortableColumn(columnId)
       THEN /\ UNCHANGED << sortBySynced, sortDirectionSynced >>
            /\ emitted' = << >>
       ELSE IF sortBy # columnId
       THEN /\ UNCHANGED sortBySynced
            /\ sortDirectionSynced' = SyncedWrite(sortDirectionSynced, "asc")
            /\ emitted' = << handleSortChange(sortBy, "asc") >>
       ELSE /\ sortDirectionSynced' =
                  SyncedWrite(sortDirectionSynced, getNextSortDirection(sortDirection))
            /\ UNCHANGED sortBySynced
            /\ emitted' = << handleSortChange(sortBy, getNextSortDirection(sortDirection)) >>
    /\ UNCHANGED pickerVars
    /\ last' = [op |-> "toggleSort", arg |-> columnId, pre |-> Pre]
    /\ UNCHANGED focusVars
    /\ UNCHANGED resizeVars
    /\ UNCHANGED << data, pagination, pageSynced, pageSizeSynced, view >>

\* toggleSort(columnId)
toggleSort(columnId) ==
    /\ IF ~IsSortableColumn(columnId)
       THEN /\ UNCHANGED << sortBySynced, sortDirectionSynced >>
            /\ emitted' = << >>
       ELSE IF sortBy # columnId
       THEN /\ sortBySynced' = SyncedWrite(sortBySynced, columnId)
            /\ sortDirectionSynced' = SyncedWrite(sortDirectionSynced, "asc")
            /\ emitted' = << handleSortChange(columnId, sortDirection),
                             handleSortChange(SyncedCurrent(sortBySynced'), "asc") >>
       ELSE /\ sortDirectionSynced' =
                  SyncedWrite(sortDirectionSynced, getNextSortDirection(sortDirection))
            /\ UNCHANGED sortBySynced
            /\ emitted' = << handleSortChange(sortBy, getNextSortDirection(sortDirection)) >>
    /\ UNCHANGED pickerVars
    /\ last' = [op |-> "toggleSort", arg |-> columnId, pre |-> Pre]
    /\ UNCHANGED focusVars
    /\ UNCHANGED resizeVars
    /\ UNCHANGED << data, pagination, pageSynced, pageSizeSynced, view >>

\* set sortBy(value)
SetSortBy(value) ==
    /\ sortBySynced' = SyncedWrite(sortBySynced, value)
    /\ emitted' = << handleSortChange(value, sortDirection) >>
    /\ UNCHANGED pickerVars
    /\ last' = [op |-> "set sortBy", arg |-> value, pre |-> Pre]
    /\ UNCHANGED focusVars
    /\ UNCHANGED resizeVars
    /\ UNCHANGED << data, pagination, sortDirectionSynced, pageSynced, pageSizeSynced, view >>

\* set sortDirection(value)
SetSortDirection(value) ==
    /\ sortDirectionSynced' = SyncedWrite(sortDirectionSynced, value)
    /\ emitted' = << handleSortChange(sortBy, value) >>
    /\ UNCHANGED pickerVars
    /\ last' = [op |-> "set sortDirection", arg |-> value, pre |-> Pre]
    /\ UNCHANGED focusVars
    /\ UNCHANGED resizeVars
    /\ UNCHANGED << data, pagination, sortBySynced, pageSynced, pageSizeSynced, view >>

\* The owner of a getter-bound sortBy changes what the getter returns.
OwnerSortBy(value) ==
    /\ ~sortBySynced.owned
    /\ value # sortBy
    /\ sortBySynced' = [sortBySynced EXCEPT !.v = value]
    /\ emitted' = << >>
    /\ UNCHANGED pickerVars
    /\ last' = [op |-> "owner sortBy", arg |-> value, pre |-> Pre]
    /\ UNCHANGED focusVars
    /\ UNCHANGED resizeVars
    /\ UNCHANGED << data, pagination, sortDirectionSynced, pageSynced, pageSizeSynced, view >>

\* The owner of a getter-bound sortDirection changes what the getter returns.
OwnerSortDirection(value) ==
    /\ ~sortDirectionSynced.owned
    /\ value # sortDirection
    /\ sortDirectionSynced' = [sortDirectionSynced EXCEPT !.v = value]
    /\ emitted' = << >>
    /\ UNCHANGED pickerVars
    /\ last' = [op |-> "owner sortDirection", arg |-> value, pre |-> Pre]
    /\ UNCHANGED focusVars
    /\ UNCHANGED resizeVars
    /\ UNCHANGED << data, pagination, sortBySynced, pageSynced, pageSizeSynced, view >>

----------------------------------------------------------------------------
(* Pagination state *)

\* Mutant of MathCeilDiv: the quotient is rounded down.
MathCeilDiv_Floor(a, b) ==
    IF b > 0 THEN a \div b
    ELSE IF b = 0 THEN (IF a = 0 THEN 0 ELSE Infinity)
    ELSE 0 - (a \div (0 - b))

\* Math.ceil(a / b) for a row count a >= 0 and any integer b; NaN (0 / 0) and
\* -0 are both falsy and are returned as 0.
MathCeilDiv(a, b) ==
    IF b > 0 THEN (a + b - 1) \div b
    ELSE IF b = 0 THEN (IF a = 0 THEN 0 ELSE Infinity)
    ELSE 0 - (a \div (0 - b))

\* get totalPages
totalPages ==
    IF ~enablePagination THEN 1
    ELSE IF MathCeilDiv(Len(data), pageSize) # 0
         THEN MathCeilDiv(Len(data), pageSize)
         ELSE 1

\* onChange: props.onPageChange / props.onPageSizeChange
onPageChange(value) == << "onPageChange", value >>
onPageSizeChange(value) == << "onPageSizeChange", value >>

\* Mutant of nextPage: the guard is off by one (page <= totalPages).
nextPage_OffByOne ==
    /\ page <= totalPages => page + 1 <= MaxPage
    /\ IF page <= totalPages
       THEN /\ pageSynced' = SyncedWrite(pageSynced, page + 1)
            /\ emitted' = << onPageChange(page + 1) >>
       ELSE /\ UNCHANGED pageSynced
            /\ emitted' = << >>
    /\ UNCHANGED pickerVars
    /\ last' = [op |-> "nextPage", arg |-> NULL, pre |-> Pre]
    /\ UNCHANGED focusVars
    /\ UNCHANGED resizeVars
    /\ UNCHANGED << data, pagination, sortBySynced, sortDirectionSynced, pageSizeSynced, view >>

\* nextPage(): this.page++ writes page + 1. The model stops counting at
\* MaxPage (with pageSize 0 the real counter has no upper limit).
nextPage ==
    /\ page < totalPages => page + 1 <= MaxPage
    /\ IF page < totalPages
       THEN /\ pageSynced' = SyncedWrite(pageSynced, page + 1)
            /\ emitted' = << onPageChange(page + 1) >>
       ELSE /\ UNCHANGED pageSynced
            /\ emitted' = << >>
    /\ UNCHANGED pickerVars
    /\ last' = [op |-> "nextPage", arg |-> NULL, pre |-> Pre]
    /\ UNCHANGED focusVars
    /\ UNCHANGED resizeVars
    /\ UNCHANGED << data, pagination, sortBySynced, sortDirectionSynced, pageSizeSynced, view >>

\* Mutant of prevPage: the current page is written back, not page - 1.
prevPage_NoStep ==
    /\ IF page > 1
       THEN /\ pageSynced' = SyncedWrite(pageSynced, page)
            /\ emitted' = << onPageChange(page) >>
       ELSE /\ UNCHANGED pageSynced
            /\ emitted' = << >>
    /\ UNCHANGED pickerVars
    /\ last' = [op |-> "prevPage", arg |-> NULL, pre |-> Pre]
    /\ UNCHANGED focusVars
    /\ UNCHANGED resizeVars
    /\ UNCHANGED << data, pagination, sortBySynced, sortDirectionSynced, pageSizeSynced, view >>

\* prevPage()
prevPage ==
    /\ IF page > 1
       THEN /\ pageSynced' = SyncedWrite(pageSynced, page - 1)
            /\ emitted' = << onPageChange(page - 1) >>
       ELSE /\ UNCHANGED pageSynced
            /\ emitted' = << >>
    /\ UNCHANGED pickerVars
    /\ last' = [op |-> "prevPage", arg |-> NULL, pre |-> Pre]
    /\ UNCHANGED focusVars
    /\ UNCHANGED resizeVars
    /\ UNCHANGED << data, pagination, sortBySynced, sortDirectionSynced, pageSizeSynced, view >>

\* Mutant of InPageRange: the upper limit is not tested.
InPageRange_NoUpperLimit(target) == target >= 1

\* The guard of goToPage
InPageRange(target) == target >= 1 /\ target <= totalPages

\* Mutant of goToPage: the target is stored without the range test.
goToPage_NoGuard(target) ==
    /\ pageSynced' = SyncedWrite(pageSynced, target)
    /\ emitted' = << onPageChange(target) >>
    /\ UNCHANGED pickerVars
    /\ last' = [op |-> "goToPage", arg |-> target, pre |-> Pre]
    /\ UNCHANGED focusVars
    /\ UNCHANGED resizeVars
    /\ UNCHANGED << data, pagination, sortBySynced, sortDirectionSynced, pageSizeSynced, view >>

\* goToPage(page)
goToPage(target) ==
    /\ IF InPageRange(target)
       THEN /\ pageSynced' = SyncedWrite(pageSynced, target)
            /\ emitted' = << onPageChange(target) >>
       ELSE /\ UNCHANGED pageSynced
            /\ emitted' = << >>
    /\ UNCHANGED pickerVars
    /\ last' = [op |-> "goToPage", arg |-> target, pre |-> Pre]
    /\ UNCHANGED focusVars
    /\ UNCHANGED resizeVars
    /\ UNCHANGED << data, pagination, sortBySynced, sortDirectionSynced, pageSizeSynced, view >>

\* Mutant of SetPage: onChange is invoked but the value is not stored.
SetPage_NoWrite(value) ==
    /\ emitted' = << onPageChange(value) >>
    /\ UNCHANGED pickerVars
    /\ last' = [op |-> "set page", arg |-> value, pre |-> Pre]
    /\ UNCHANGED focusVars
    /\ UNCHANGED resizeVars
    /\ UNCHANGED << data, pagination, sortBySynced, sortDirectionSynced, pageSynced,
                    pageSizeSynced, view >>

\* set page(value)
SetPage(value) ==
    /\ pageSynced' = SyncedWrite(pageSynced, value)
    /\ emitted' = << onPageChange(value) >>
    /\ UNCHANGED pickerVars
    /\ last' = [op |-> "set page", arg |-> value, pre |-> Pre]
    /\ UNCHANGED focusVars
    /\ UNCHANGED resizeVars
    /\ UNCHANGED << data, pagination, sortBySynced, sortDirectionSynced, pageSizeSynced, view >>

\* set pageSize(value)
SetPageSize(value) ==
    /\ pageSizeSynced' = SyncedWrite(pageSizeSynced, value)
    /\ emitted' = << onPageSizeChange(value) >>
    /\ UNCHANGED pickerVars
    /\ last' = [op |-> "set pageSize", arg |-> value, pre |-> Pre]
    /\ UNCHANGED focusVars
    /\ UNCHANGED resizeVars
    /\ UNCHANGED << data, pagination, sortBySynced, sortDirectionSynced, pageSynced, view >>

\* The owner of a getter-bound page changes what the getter returns.
OwnerPage(value) ==
    /\ ~pageSynced.owned
    /\ value # page
    /\ pageSynced' = [pageSynced EXCEPT !.v = value]
    /\ emitted' = << >>
    /\ UNCHANGED pickerVars
    /\ last' = [op |-> "owner page", arg |-> value, pre |-> Pre]
    /\ UNCHANGED focusVars
    /\ UNCHANGED resizeVars
    /\ UNCHANGED << data, pagination, sortBySynced, sortDirectionSynced, pageSizeSynced, view >>

\* The owner of a getter-bound pageSize changes what the getter returns.
OwnerPageSize(value) ==
    /\ ~pageSizeSynced.owned
    /\ value # pageSize
    /\ pageSizeSynced' = [pageSizeSynced EXCEPT !.v = value]
    /\ emitted' = << >>
    /\ UNCHANGED pickerVars
    /\ last' = [op |-> "owner pageSize", arg |-> value, pre |-> Pre]
    /\ UNCHANGED focusVars
    /\ UNCHANGED resizeVars
    /\ UNCHANGED << data, pagination, sortBySynced, sortDirectionSynced, pageSynced, view >>

PageValues == (0 - 1)..MaxPage
PageSizeValues == (0 - 1)..MaxPageSize

----------------------------------------------------------------------------
(* The sorted, paginated view: the data getter *)

\* aValue.localeCompare(bValue) on collation ranks
localeCompare(aValue, bValue) ==
    IF aValue[1] < bValue[1] THEN 0 - 1 ELSE IF aValue[1] > bValue[1] THEN 1 ELSE 0

\* The sortFn the application gives column "rank": by age, a missing age
\* counting as 0, in the direction asked for.
CustomSortFn(a, b, direction) ==
    LET ka == IF IsNullish(a.age) THEN 0 ELSE a.age[1]
        kb == IF IsNullish(b.age) THEN 0 ELSE b.age[1]
    IN  IF direction = "asc" THEN ka - kb ELSE kb - ka

\* Mutant of Compare: a missing value sorts first whatever the direction.
Compare_NullAlwaysFirst(column, a, b, direction) ==
    IF column.sortFn THEN CustomSortFn(a, b, direction)
    ELSE LET aValue == a[column.accessor]
             bValue == b[column.accessor]
         IN  IF IsNullish(aValue) THEN 0 - 1
             ELSE IF IsNullish(bValue) THEN 1
             ELSE IF column.kind = "string"
             THEN (IF direction = "asc"
                   THEN localeCompare(aValue, bValue)
                   ELSE localeCompare(bValue, aValue))
             ELSE IF direction = "asc"
             THEN (IF aValue[1] < bValue[1] THEN 0 - 1
                   ELSE IF aValue[1] > bValue[1] THEN 1 ELSE 0)
             ELSE (IF aValue[1] < bValue[1] THEN 1
                   ELSE IF aValue[1] > bValue[1] THEN 0 - 1 ELSE 0)

\* The comparator #getSortedData passes to sort, for rows a and b.
Compare(column, a, b, direction) ==
    IF column.sortFn THEN CustomSortFn(a, b, direction)
    ELSE LET aValue == a[column.accessor]
             bValue == b[column.accessor]
         IN  IF IsNullish(aValue) THEN (IF direction = "asc" THEN 0 - 1 ELSE 1)
             ELSE IF IsNullish(bValue) THEN (IF direction = "asc" THEN 1 ELSE 0 - 1)
             ELSE IF column.kind = "string"
             THEN (IF direction = "asc"
                   THEN localeCompare(aValue, bValue)
                   ELSE localeCompare(bValue, aValue))
             ELSE IF direction = "asc"
             THEN (IF aValue[1] < bValue[1] THEN 0 - 1
                   ELSE IF aValue[1] > bValue[1] THEN 1 ELSE 0)
             ELSE (IF aValue[1] < bValue[1] THEN 1
                   ELSE IF aValue[1] > bValue[1] THEN 0 - 1 ELSE 0)

\* The permutations of 1..n, as sequences of row indices.
IndexPermutations(n) ==
    { p \in [1..n -> 1..n] : \A i, j \in 1..n : i # j => p[i] # p[j] }

\* Array.prototype.sort with comparator column/direction may put row x before
\* row y: the comparator says so for either order of asking, or it calls them
\* equal and x came first (the sort is stable). Where the comparator
\* contradicts itself, the order of the pair is the engine's choice.
MayPrecede(rows, column, direction, x, y) ==
    LET cxy == Compare(column, rows[x], rows[y], direction)
        cyx == Compare(column, rows[y], rows[x], direction)
    IN  \/ cxy < 0
        \/ cyx > 0
        \/ (cxy = 0 /\ cyx = 0 /\ x < y)

\* [...data].sort(comparator): every order an engine may produce.
ArraySort(rows, column, direction) ==
    { p \in IndexPermutations(Len(rows)) :
        \A i, j \in 1..Len(rows) :
            i < j => MayPrecede(rows, column, direction, p[i], p[j]) }

\* [...data]
ArrayCopy(rows) == { [i \in 1..Len(rows) |-> i] }

\* #getSortedData(data): the possible results, as sequences of raw indices.
getSortedData(rows) ==
    IF sortBy = NULL \/ sortDirection = NULL THEN ArrayCopy(rows)
    ELSE IF FindColumn(sortBy) = 0 THEN ArrayCopy(rows)
    ELSE ArraySort(rows, Columns[FindColumn(sortBy)], sortDirection)

\* A relative index of Array.prototype.slice: negative counts from the end.
RelativeIndex(k, len) ==
    IF k < 0 THEN (IF len + k > 0 THEN len + k ELSE 0)
    ELSE (IF k < len THEN k ELSE len)

\* sortedData.slice(start, end), 0-based and end-exclusive as in JavaScript.
ArraySlice(s, start, end) ==
    LET from == RelativeIndex(start, Len(s))
        to   == RelativeIndex(end, Len(s))
    IN  IF to > from THEN [i \in 1..(to - from) |-> s[from + i]] ELSE << >>

\* get data: the possible results.
dataGetter ==
    IF ~enablePagination THEN getSortedData(data)
    ELSE { ArraySlice(s, (page - 1) * pageSize, (page - 1) * pageSize + pageSize) :
             s \in getSortedData(data) }

\* What the data getter returns on page p when the sort produced s:
\* s.slice((p - 1) * pageSize, (p - 1) * pageSize + pageSize).
dataOfPage(s, p) ==
    ArraySlice(s, (p - 1) * pageSize, (p - 1) * pageSize + pageSize)

\* Mutant of ReadData: the rows are sorted in place, not in a copy.
ReadData_SortsInPlace ==
    /\ \E s \in getSortedData(data) :
         /\ data' = [i \in 1..Len(data) |-> data[s[i]]]
         /\ view' = IF ~enablePagination THEN s
                    ELSE ArraySlice(s, (page - 1) * pageSize, (page - 1) * pageSize + pageSize)
    /\ emitted' = << >>
    /\ UNCHANGED pickerVars
    /\ last' = [op |-> "data", arg |-> NULL, pre |-> Pre]
    /\ UNCHANGED focusVars
    /\ UNCHANGED resizeVars
    /\ UNCHANGED << pagination, sortBySynced, sortDirectionSynced, pageSynced, pageSizeSynced >>

\* A read of the data getter.
ReadData ==
    /\ view' \in dataGetter
    /\ emitted' = << >>
    /\ UNCHANGED pickerVars
    /\ last' = [op |-> "data", arg |-> NULL, pre |-> Pre]
    /\ UNCHANGED focusVars
    /\ UNCHANGED resizeVars
    /\ UNCHANGED << data, pagination, sortBySynced, sortDirectionSynced, pageSynced, pageSizeSynced >>

----------------------------------------------------------------------------
(* Column resizing: the width overrides and the public resize operations    *)

\* Largest number of listener sets / deferred callbacks the model lets pile up.
MaxListenerSets == 2
MaxPending == 2

\* const minWidth = column.minWidth ?? 50
DefaultMinWidth == 50

\* The widths resizeColumn is called with, the clientX of pointer events, and
\* what document.querySelector finds for a header cell: nothing, or an element
\* of the measured width.
ProposedWidths == {10, 120, 500}
ClientXs == {0, 60}
HeaderCells == { << >>, << 100 >> }
Touches == { << >> } \cup { << x >> : x \in ClientXs }

\* Between the events of a gesture: the columns whose handle is pressed, and
\* the calls of resizeColumn the consumer makes.
HandleColumnIds == {"name", "rank", "notes", UnknownId}
CalledColumnIds == {"age", "notes", UnknownId}
DragProposedWidths == {500}

\* A Map with no entries; Map.set.
EmptyMap == [key \in {} |-> 0]

MapSet(map, key, value) ==
    [k \in DOMAIN map \cup {key} |-> IF k = key THEN value ELSE map[k]]

\* The document has no listener of the resize gesture.
NoListeners == [mousemove |-> 0, touchmove |-> 0, mouseup |-> 0, touchend |-> 0]

\* A CSS width: `${n}px`, a declared width, "auto".
Px(n) == [n |-> n, unit |-> "px"]
Auto == [n |-> 0, unit |-> "auto"]

MathMin(a, b) == IF a <= b THEN a ELSE b
MathMax(a, b) == IF a >= b THEN a ELSE b

\* get resizableColumns: extract(props.resizableColumns, true)
resizableColumns == extract(resizableColumnsProp, TRUE)

\* column.minWidth ?? 50 and column.maxWidth ?? Infinity
minWidth(column) ==
    IF IsNullish(column.minWidth) THEN DefaultMinWidth ELSE column.minWidth[1]

maxWidth(column) ==
    IF IsNullish(column.maxWidth) THEN Infinity ELSE column.maxWidth[1]

\* Mutant of constrainedWidth: the lower limit is not applied.
constrainedWidth_NoLowerLimit(column, width) == MathMin(maxWidth(column), width)

\* const constrainedWidth = Math.max(minWidth, Math.min(maxWidth, width))
constrainedWidth(column, width) ==
    MathMax(minWidth(column), MathMin(maxWidth(column), width))

\* Mutant of IsResizableColumn: the column's own resizable flag is not read.
IsResizableColumn_IgnoresFlag(columnId) ==
    /\ FindColumn(columnId) # 0
    /\ resizableColumns

\* !column || column.resizable === false || !this.resizableColumns is false
IsResizableColumn(columnId) ==
    /\ FindColumn(columnId) # 0
    /\ Columns[FindColumn(columnId)].resizable # "false"
    /\ resizableColumns

\* this.#props.onColumnResize?.(columnId, constrainedWidth)
onColumnResize(columnId, width) == << "onColumnResize", columnId, width >>

\* Mutant of getColumnWidth: the override is never read.
getColumnWidth_IgnoresOverride(columnId) ==
    IF FindColumn(columnId) = 0 THEN Auto
    ELSE IF IsNullish(Columns[FindColumn(columnId)].width) THEN Auto
    ELSE Columns[FindColumn(columnId)].width[1]

\* getColumnWidth(columnId)
getColumnWidth(columnId) ==
    IF FindColumn(columnId) = 0 THEN Auto
    ELSE IF columnId \in DOMAIN columnWidths THEN Px(columnWidths[columnId])
    ELSE IF IsNullish(Columns[FindColumn(columnId)].width) THEN Auto
    ELSE Columns[FindColumn(columnId)].width[1]

\* What one call resizeColumn(columnId, width) leaves in #columnWidths, and
\* the callbacks it invokes.
ColumnWidthsAfter(columnId, width) ==
    IF IsResizableColumn(columnId)
    THEN MapSet(columnWidths, columnId,
                constrainedWidth(Columns[FindColumn(columnId)], width))
    ELSE columnWidths

\* Mutant of EmittedBy: the callback is not invoked.
EmittedBy_Silent(columnId, width) == << >>

EmittedBy(columnId, width) ==
    IF IsResizableColumn(columnId)
    THEN << onColumnResize(columnId,
                           constrainedWidth(Columns[FindColumn(columnId)], width)) >>
    ELSE << >>

ResizedAfter(columnId) ==
    IF IsResizableColumn(columnId) THEN resized \cup {columnId} ELSE resized

\* resizeColumn(columnId, width), called by the consumer.
resizeColumn(columnId, width) ==
    /\ columnWidths' = ColumnWidthsAfter(columnId, width)
    /\ emitted' = EmittedBy(columnId, width)
    /\ resized' = ResizedAfter(columnId)
    /\ UNCHANGED pickerVars
    /\ last' = [op |-> "resizeColumn", arg |-> << columnId, width >>, pre |-> Pre]
    /\ UNCHANGED focusVars
    /\ UNCHANGED tableVars
    /\ UNCHANGED << resizableColumnsProp, isResizing, resizingColumnId, resizeStartX,
                    resizeStartWidth, listeners, bodyResizingClass, bodyCursor,
                    pendingFrames, pendingTimeouts, handleHeld,
                    pressed >>

\* The owner of props.resizableColumns switches it (resizableColumns is a getter).
ResizableColumnsChange(value) ==
    /\ ~IsNullish(resizableColumnsProp)
    /\ value # resizableColumnsProp[1]
    /\ resizableColumnsProp' = << value >>
    /\ emitted' = << >>
    /\ UNCHANGED pickerVars
    /\ last' = [op |-> "owner resizableColumns", arg |-> value, pre |-> Pre]
    /\ UNCHANGED focusVars
    /\ UNCHANGED tableVars
    /\ UNCHANGED << columnWidths, isResizing, resizingColumnId, resizeStartX,
                    resizeStartWidth, listeners, bodyResizingClass, bodyCursor,
                    pendingFrames, pendingTimeouts, resized, handleHeld,
                    pressed >>

----------------------------------------------------------------------------
(* Column resizing: the drag gesture on a resize handle                     *)

\* Mutant of addEventListeners: the two release listeners are not added.
addEventListeners_MovesOnly(l) ==
    [l EXCEPT !.mousemove = @ + 1, !.touchmove = @ + 1]

\* The four document.addEventListener calls that end #handleResizeStart.
addEventListeners(l) ==
    [l EXCEPT !.mousemove = @ + 1, !.touchmove = @ + 1,
              !.mouseup = @ + 1, !.touchend = @ + 1]

\* The four document.removeEventListener calls of handleMouseUp, run by k of
\* the handlers: each removes the listeners of its own pointer-down.
removeEventListeners(l, k) ==
    [type \in DOMAIN l |-> IF l[type] >= k THEN l[type] - k ELSE 0]

\* #handleResizeStart(e, columnId): e.clientX, and the header cell
\* document.querySelector finds.
handleResizeStart(clientX, columnId, headerCell) ==
    IF ~IsResizableColumn(columnId)
    THEN UNCHANGED << isResizing, resizingColumnId, resizeStartX, resizeStartWidth,
                      listeners, bodyResizingClass >>
    ELSE /\ isResizing' = TRUE
         /\ resizingColumnId' = columnId
         /\ resizeStartX' = clientX
         /\ IF IsNullish(headerCell)
            THEN UNCHANGED << resizeStartWidth, listeners, bodyResizingClass >>
            ELSE /\ listeners.mousemove < MaxListenerSets
                 /\ resizeStartWidth' = headerCell[1]
                 /\ bodyResizingClass' = TRUE
                 /\ listeners' = addEventListeners(listeners)

\* The press a call of #handleResizeStart leaves as the one that opened the
\* session: itself when it passed the guard and measured the header cell,
\* none when it passed the guard and found no header cell, the earlier one
\* when it returned at the guard.
PressedAfter(clientX, columnId, headerCell) ==
    IF ~IsResizableColumn(columnId) THEN pressed
    ELSE IF IsNullish(headerCell) THEN Nullish
    ELSE << [columnId |-> columnId, startX |-> clientX, startWidth |-> headerCell[1]] >>

\* getResizeHandle(columnId).onmousedown
onmousedown(columnId, clientX, headerCell) ==
    /\ handleResizeStart(clientX, columnId, headerCell)
    /\ handleHeld' = TRUE
    /\ pressed' = PressedAfter(clientX, columnId, headerCell)
    /\ emitted' = << >>
    /\ UNCHANGED pickerVars
    /\ last' = [op |-> "onmousedown", arg |-> columnId, pre |-> Pre]
    /\ UNCHANGED focusVars
    /\ UNCHANGED tableVars
    /\ UNCHANGED << resizableColumnsProp, columnWidths, bodyCursor, pendingFrames,
                    pendingTimeouts, resized >>

\* getResizeHandle(columnId).ontouchstart: e.touches, of which the first is used.
ontouchstart(columnId, touches, headerCell) ==
    /\ IF Len(touches) = 0
       THEN UNCHANGED << isResizing, resizingColumnId, resizeStartX, resizeStartWidth,
                         listeners, bodyResizingClass >>
       ELSE handleResizeStart(touches[1], columnId, headerCell)
    /\ handleHeld' = TRUE
    /\ pressed' = IF Len(touches) = 0 THEN pressed
                  ELSE PressedAfter(touches[1], columnId, headerCell)
    /\ emitted' = << >>
    /\ UNCHANGED pickerVars
    /\ last' = [op |-> "ontouchstart", arg |-> columnId, pre |-> Pre]
    /\ UNCHANGED focusVars
    /\ UNCHANGED tableVars
    /\ UNCHANGED << resizableColumnsProp, columnWidths, bodyCursor, pendingFrames,
                    pendingTimeouts, resized >>

\* if (!this.#isResizing || !this.#resizingColumnId) return; is passed.
MoveHandled == isResizing /\ resizingColumnId # NULL

\* Mutant of newWidth: the start position is not subtracted.
newWidth_IgnoresStartX(clientX) == resizeStartWidth + clientX

\* this.#resizeStartWidth + (clientX - this.#resizeStartX)
newWidth(clientX) == resizeStartWidth + (clientX - resizeStartX)

\* The callbacks k calls of resizeColumn(columnId, width) invoke.
EmittedByCalls(k, columnId, width) ==
    [i \in 1..(k * Len(EmittedBy(columnId, width))) |-> EmittedBy(columnId, width)[1]]

\* A mousemove event on the document: handleMouseMove runs once for every
\* mousemove listener attached, and each run defers one animation frame.
handleMouseMove(clientX) ==
    /\ IF listeners.mousemove > 0 /\ MoveHandled
       THEN /\ pendingFrames + listeners.mousemove <= MaxPending
            /\ columnWidths' = ColumnWidthsAfter(resizingColumnId, newWidth(clientX))
            /\ emitted' = EmittedByCalls(listeners.mousemove, resizingColumnId,
                                         newWidth(clientX))
            /\ resized' = ResizedAfter(resizingColumnId)
            /\ pendingFrames' = pendingFrames + listeners.mousemove
       ELSE /\ emitted' = << >>
            /\ UNCHANGED << columnWidths, resized, pendingFrames >>
    /\ UNCHANGED pickerVars
    /\ last' = [op |-> "mousemove", arg |-> clientX, pre |-> Pre]
    /\ UNCHANGED focusVars
    /\ UNCHANGED tableVars
    /\ UNCHANGED << resizableColumnsProp, isResizing, resizingColumnId, resizeStartX,
                    resizeStartWidth, listeners, bodyResizingClass, bodyCursor,
                    pendingTimeouts, handleHeld,
                    pressed >>

\* A touchmove event on the document: handleTouchMove runs once for every
\* touchmove listener attached.
handleTouchMove(touches) ==
    /\ IF listeners.touchmove > 0 /\ MoveHandled /\ Len(touches) > 0
       THEN /\ columnWidths' = ColumnWidthsAfter(resizingColumnId, newWidth(touches[1]))
            /\ emitted' = EmittedByCalls(listeners.touchmove, resizingColumnId,
                                         newWidth(touches[1]))
            /\ resized' = ResizedAfter(resizingColumnId)
       ELSE /\ emitted' = << >>
            /\ UNCHANGED << columnWidths, resized >>
    /\ UNCHANGED pickerVars
    /\ last' = [op |-> "touchmove", arg |-> touches, pre |-> Pre]
    /\ UNCHANGED focusVars
    /\ UNCHANGED tableVars
    /\ UNCHANGED << resizableColumnsProp, isResizing, resizingColumnId, resizeStartX,
                    resizeStartWidth, listeners, bodyResizingClass, bodyCursor,
                    pendingFrames, pendingTimeouts, handleHeld,
                    pressed >>

\* #finishResize(), but for the setTimeout it ends with.
\* Mutant of finishResize: the start position and width are not reset.
finishResize_KeepsStart ==
    /\ isResizing' = FALSE
    /\ resizingColumnId' = NULL
    /\ UNCHANGED << resizeStartX, resizeStartWidth >>
    /\ bodyResizingClass' = FALSE
    /\ bodyCursor' = FALSE

finishResize ==
    /\ isResizing' = FALSE
    /\ resizingColumnId' = NULL
    /\ resizeStartX' = 0
    /\ resizeStartWidth' = 0
    /\ bodyResizingClass' = FALSE
    /\ bodyCursor' = FALSE

\* A mouseup or touchend event on the document: handleMouseUp runs once for
\* every listener of that type attached, and each run defers one timeout.
handleMouseUp(type) ==
    /\ IF listeners[type] > 0
       THEN /\ pendingTimeouts + listeners[type] <= MaxPending
            /\ finishResize
            /\ pendingTimeouts' = pendingTimeouts + listeners[type]
            /\ listeners' = removeEventListeners(listeners, listeners[type])
       ELSE UNCHANGED << isResizing, resizingColumnId, resizeStartX, resizeStartWidth,
                         bodyResizingClass, bodyCursor, pendingTimeouts, listeners >>
    /\ handleHeld' = FALSE
    /\ pressed' = Nullish
    /\ emitted' = << >>
    /\ UNCHANGED pickerVars
    /\ last' = [op |-> type, arg |-> NULL, pre |-> Pre]
    /\ UNCHANGED focusVars
    /\ UNCHANGED tableVars
    /\ UNCHANGED << resizableColumnsProp, columnWidths, pendingFrames, resized >>

\* The next animation frame: every callback handleMouseMove deferred runs,
\* document.body.style.cursor = "col-resize".
AnimationFrame ==
    /\ pendingFrames > 0
    /\ pendingFrames' = 0
    /\ bodyCursor' = TRUE
    /\ emitted' = << >>
    /\ UNCHANGED pickerVars
    /\ last' = [op |-> "animation frame", arg |-> NULL, pre |-> Pre]
    /\ UNCHANGED focusVars
    /\ UNCHANGED tableVars
    /\ UNCHANGED << resizableColumnsProp, columnWidths, isResizing, resizingColumnId,
                    resizeStartX, resizeStartWidth, listeners, bodyResizingClass,
                    pendingTimeouts, resized, handleHeld,
                    pressed >>

\* One timeout #finishResize deferred runs: window.dispatchEvent(new Event("resize")).
Timeout ==
    /\ pendingTimeouts > 0
    /\ pendingTimeouts' = pendingTimeouts - 1
    /\ emitted' = << << "window.dispatchEvent", "resize" >> >>
    /\ UNCHANGED pickerVars
    /\ last' = [op |-> "timeout", arg |-> NULL, pre |-> Pre]
    /\ UNCHANGED focusVars
    /\ UNCHANGED tableVars
    /\ UNCHANGED << resizableColumnsProp, columnWidths, isResizing, resizingColumnId,
                    resizeStartX, resizeStartWidth, listeners, bodyResizingClass,
                    bodyCursor, pendingFrames, resized, handleHeld,
                    pressed >>

----------------------------------------------------------------------------
(* Keyboard navigation: the focus cursor and the cells                      *)

\* Largest number of rows / columns of the grids the focus model enumerates.
MaxFocusRows == 3
MaxFocusCols == 2

\* Largest number of deferred focus calls the model lets pile up.
MaxPendingFocus == 2

\* Mutant of keyboardNavigation: the default is false.
keyboardNavigation_DefaultOff == extract(keyboardNavigationProp, FALSE)

\* get keyboardNavigation: extract(props.keyboardNavigation, true)
keyboardNavigation == extract(keyboardNavigationProp, TRUE)

\* get columns: extract(props.columns, [])
columns == SubSeq(Columns, 1, columnCount)

\* this.data.length: every result of the data getter has the same length.
DataLength == Len(CHOOSE rows \in dataGetter : TRUE)

\* e.key of a keydown event: the four arrow keys, and a key getCell ignores.
ArrowKeys == {"ArrowUp", "ArrowDown", "ArrowLeft", "ArrowRight"}
Keys == ArrowKeys \cup {"Home"}

\* The cell the cursor is on.
Cell(rowIndex, colIndex) == << [rowIndex |-> rowIndex, colIndex |-> colIndex] >>

\* Mutant of BoundIndex: the upper bound is not applied.
BoundIndex_NoUpperBound(index, maxIndex) == IF index < 0 THEN 0 ELSE index

\* if (index < 0) index = 0; if (index > maxIndex) index = maxIndex;
BoundIndex(index, maxIndex) ==
    IF (IF index < 0 THEN 0 ELSE index) > maxIndex THEN maxIndex
    ELSE (IF index < 0 THEN 0 ELSE index)

\* #moveFocus(rowIndex, colIndex): the cursor it stores. The deferred
\* cellEl.focus() runs onfocus of the cell with these indices, if there is
\* one, which stores the same cursor again.
moveFocus(rowIndex, colIndex) ==
    Cell(BoundIndex(rowIndex, DataLength - 1), BoundIndex(colIndex, Len(columns) - 1))

\* getCell(rowIndex, colIndex).tabindex: << 0 >>, << -1 >> or undefined.
tabindex(rowIndex, colIndex) ==
    IF ~keyboardNavigation THEN Nullish
    ELSE IF focusedCell = Cell(rowIndex, colIndex) THEN << 0 >>
    ELSE << 0 - 1 >>

\* The tick().then callbacks pending after getCell(rowIndex, colIndex).onkeydown:
\* #moveFocus defers one for the cell it stored.
Scheduled(rowIndex, colIndex, key) ==
    IF keyboardNavigation /\ key \in ArrowKeys
    THEN Append(pendingFocus,
                IF key = "ArrowUp" THEN moveFocus(rowIndex - 1, colIndex)[1]
                ELSE IF key = "ArrowDown" THEN moveFocus(rowIndex + 1, colIndex)[1]
                ELSE IF key = "ArrowLeft" THEN moveFocus(rowIndex, colIndex - 1)[1]
                ELSE moveFocus(rowIndex, colIndex + 1)[1])
    ELSE pendingFocus

\* getCell(rowIndex, colIndex).onkeydown
\* Mutant of getCellOnkeydown: ArrowDown below the last row of the page turns
\* the page.
getCellOnkeydown_AdvancesPage(rowIndex, colIndex, key) ==
    /\ Len(Scheduled(rowIndex, colIndex, key)) <= MaxPendingFocus
    /\ pendingFocus' = Scheduled(rowIndex, colIndex, key)
    /\ focusedCell' =
         IF ~keyboardNavigation THEN focusedCell
         ELSE IF key = "ArrowUp" THEN moveFocus(rowIndex - 1, colIndex)
         ELSE IF key = "ArrowDown" THEN moveFocus(rowIndex + 1, colIndex)
         ELSE IF key = "ArrowLeft" THEN moveFocus(rowIndex, colIndex - 1)
         ELSE IF key = "ArrowRight" THEN moveFocus(rowIndex, colIndex + 1)
         ELSE focusedCell
    /\ emitted' = << >>
    /\ UNCHANGED pickerVars
    /\ last' = [op |-> "cell onkeydown",
                arg |-> [rowIndex |-> rowIndex, colIndex |-> colIndex, key |-> key],
                pre |-> Pre]
    /\ pageSynced' =
         IF keyboardNavigation /\ key = "ArrowDown" /\ rowIndex + 1 > DataLength - 1
         THEN SyncedWrite(pageSynced, page + 1)
         ELSE pageSynced
    /\ UNCHANGED << data, pagination, sortBySynced, sortDirectionSynced, pageSizeSynced, view >>
    /\ UNCHANGED resizeVars
    /\ UNCHANGED << keyboardNavigationProp, columnCount, returned, activeElement >>

getCellOnkeydown(rowIndex, colIndex, key) ==
    /\ Len(Scheduled(rowIndex, colIndex, key)) <= MaxPendingFocus
    /\ pendingFocus' = Scheduled(rowIndex, colIndex, key)
    /\ focusedCell' =
         IF ~keyboardNavigation THEN focusedCell
         ELSE IF key = "ArrowUp" THEN moveFocus(rowIndex - 1, colIndex)
         ELSE IF key = "ArrowDown" THEN moveFocus(rowIndex + 1, colIndex)
         ELSE IF key = "ArrowLeft" THEN moveFocus(rowIndex, colIndex - 1)
         ELSE IF key = "ArrowRight" THEN moveFocus(rowIndex, colIndex + 1)
         ELSE focusedCell
    /\ emitted' = << >>
    /\ UNCHANGED pickerVars
    /\ last' = [op |-> "cell onkeydown",
                arg |-> [rowIndex |-> rowIndex, colIndex |-> colIndex, key |-> key],
                pre |-> Pre]
    /\ UNCHANGED tableVars
    /\ UNCHANGED resizeVars
    /\ UNCHANGED << keyboardNavigationProp, columnCount, returned, activeElement >>

\* A cell element of the document: of this table ("own") or of another
\* DataTable in the same document ("other").
Element(table, rowIndex, colIndex) ==
    << [table |-> table, rowIndex |-> rowIndex, colIndex |-> colIndex] >>

\* The document holds this table's cell with these indices: the template
\* renders one cell for every row of the data view and every column.
Rendered(rowIndex, colIndex) ==
    /\ rowIndex >= 0 /\ rowIndex < DataLength
    /\ colIndex >= 0 /\ colIndex < Len(columns)

\* document.querySelector(cellSelector): the first element in document order
\* that matches `[data-melt-datatable-cell][data-row-index][data-col-index]`.
\* The selector names no table, so a cell of another DataTable that comes
\* earlier in the document (otherFirst) is the one found.
querySelector(rowIndex, colIndex, otherFirst) ==
    IF otherFirst /\ rowIndex >= 0 /\ colIndex >= 0
    THEN Element("other", rowIndex, colIndex)
    ELSE IF Rendered(rowIndex, colIndex) THEN Element("own", rowIndex, colIndex)
    ELSE Nullish

\* getCell(rowIndex, colIndex).onfocus
getCellOnfocus(rowIndex, colIndex) ==
    /\ focusedCell' = Cell(rowIndex, colIndex)
    /\ activeElement' = Element("own", rowIndex, colIndex)
    /\ emitted' = << >>
    /\ UNCHANGED pickerVars
    /\ last' = [op |-> "cell onfocus",
                arg |-> [rowIndex |-> rowIndex, colIndex |-> colIndex, key |-> NULL],
                pre |-> Pre]
    /\ UNCHANGED tableVars
    /\ UNCHANGED resizeVars
    /\ UNCHANGED << keyboardNavigationProp, columnCount, returned, pendingFocus >>


\* The oldest pending tick().then callback of #moveFocus runs: it looks the
\* cell up and, if there is one, calls cellEl.focus(). A focus event on a
\* cell of this table runs its onfocus handler; focusing the element that
\* already has focus fires no event.
FocusStep(otherFirst) ==
    LET target == Head(pendingFocus)
        cellEl == querySelector(target.rowIndex, target.colIndex, otherFirst)
    IN  /\ pendingFocus # << >>
        /\ pendingFocus' = Tail(pendingFocus)
        /\ activeElement' = IF IsNullish(cellEl) THEN activeElement ELSE cellEl
        /\ focusedCell' =
             IF ~IsNullish(cellEl) /\ cellEl # activeElement /\ cellEl[1].table = "own"
             THEN Cell(target.rowIndex, target.colIndex)
             ELSE focusedCell
        /\ emitted' = << >>
        /\ UNCHANGED pickerVars
        /\ last' = [op |-> "focus step", arg |-> target, pre |-> Pre]
        /\ UNCHANGED tableVars
        /\ UNCHANGED resizeVars
        /\ UNCHANGED << keyboardNavigationProp, columnCount, returned >>

----------------------------------------------------------------------------
(* Header cells                                                             *)

\* getHeaderCell(column, _index)["aria-sort"]
ariaSort(column) ==
    IF column.id = sortBy
    THEN (IF sortDirection = "asc" THEN "ascending" ELSE "descending")
    ELSE "undefined"

\* getHeaderCell(column, _index).onclick for the column with this id:
\* targetInHandle is whether e.target.closest(".column-resize-handle") finds
\* an element. The handler calls toggleSort(column.id) or does nothing.
getHeaderCellOnclick(columnId, targetInHandle) ==
    IF Columns[FindColumn(columnId)].sortable = "true" /\ ~targetInHandle
    THEN toggleSort(columnId)
    ELSE /\ emitted' = << >>
         /\ UNCHANGED pickerVars
         /\ last' = [op |-> "header onclick", arg |-> columnId, pre |-> Pre]
         /\ UNCHANGED tableVars
         /\ UNCHANGED resizeVars
         /\ UNCHANGED focusVars

\* The keys getHeaderCell(column).onkeydown acts on (kbd.SPACE, kbd.ENTER),
\* and one it does not.
HeaderKeys == {"Space", "Enter", "Tab"}

\* Mutant of getHeaderCellOnkeydown: keyboardNavigation is not read.
getHeaderCellOnkeydown_IgnoresFlag(columnId, key) ==
    IF Columns[FindColumn(columnId)].sortable = "true" /\ key \in {"Space", "Enter"}
    THEN toggleSort(columnId)
    ELSE /\ emitted' = << >>
         /\ UNCHANGED pickerVars
         /\ last' = [op |-> "header onkeydown", arg |-> columnId, pre |-> Pre]
         /\ UNCHANGED tableVars
         /\ UNCHANGED resizeVars
         /\ UNCHANGED focusVars

\* getHeaderCell(column, _index).onkeydown for the column with this id: the
\* handler calls toggleSort(column.id) or does nothing.
getHeaderCellOnkeydown(columnId, key) ==
    IF /\ keyboardNavigation
       /\ Columns[FindColumn(columnId)].sortable = "true"
       /\ key \in {"Space", "Enter"}
    THEN toggleSort(columnId)
    ELSE /\ emitted' = << >>
         /\ UNCHANGED pickerVars
         /\ last' = [op |-> "header onkeydown", arg |-> columnId, pre |-> Pre]
         /\ UNCHANGED tableVars
         /\ UNCHANGED resizeVars
         /\ UNCHANGED focusVars

----------------------------------------------------------------------------
(* Attribute builders and read-only getters: each call computes a value    *)
(* from the current state and returns it. The event handlers inside the    *)
(* returned objects are the actions onmousedown, ontouchstart,             *)
(* getHeaderCellOnclick, getCellOnkeydown and getCellOnfocus.              *)

\* A call that returns value and writes nothing.
Returns(op, arg, value) ==
    /\ returned' = value
    /\ emitted' = << >>
    /\ UNCHANGED pickerVars
    /\ last' = [op |-> op, arg |-> arg, pre |-> Pre]
    /\ UNCHANGED << keyboardNavigationProp, columnCount, focusedCell, pendingFocus,
                    activeElement >>
    /\ UNCHANGED resizeVars
    /\ UNCHANGED tableVars

\* get root
root == Returns("root", NULL, [builder |-> "root", role |-> "table", id |-> "ids.root"])

\* get header
header == Returns("header", NULL, [builder |-> "header", role |-> "rowgroup"])

\* get headerRow
headerRow == Returns("headerRow", NULL, [builder |-> "headerRow", role |-> "row"])

\* get body
body == Returns("body", NULL, [builder |-> "body", role |-> "rowgroup"])

\* get footer
footer == Returns("footer", NULL, [builder |-> "footer", role |-> "rowgroup"])

\* get paginationAttrs
paginationAttrs ==
    Returns("paginationAttrs", NULL,
            [builder |-> "paginationAttrs", role |-> "navigation", ariaLabel |-> "Pagination"])

\* get emptyState
emptyState == Returns("emptyState", NULL, [builder |-> "emptyState", role |-> "row"])

\* getRow(rowIndex)
getRow(rowIndex) ==
    Returns("getRow", << rowIndex >>,
            [builder |-> "getRow", role |-> "row", dataRowIndex |-> rowIndex])

\* Mutant of getCell: building the cell's attributes moves the cursor to it.
getCell_MovesCursor(rowIndex, colIndex) ==
    /\ returned' = [builder |-> "getCell", role |-> "cell", dataRowIndex |-> rowIndex,
                    dataColIndex |-> colIndex, tabindex |-> tabindex(rowIndex, colIndex)]
    /\ focusedCell' = Cell(rowIndex, colIndex)
    /\ emitted' = << >>
    /\ UNCHANGED pickerVars
    /\ last' = [op |-> "getCell", arg |-> << rowIndex, colIndex >>, pre |-> Pre]
    /\ UNCHANGED << keyboardNavigationProp, columnCount, pendingFocus, activeElement >>
    /\ UNCHANGED resizeVars
    /\ UNCHANGED tableVars

\* getCell(rowIndex, colIndex)
getCell(rowIndex, colIndex) ==
    /\ returned' = [builder |-> "getCell", role |-> "cell", dataRowIndex |-> rowIndex,
                    dataColIndex |-> colIndex, tabindex |-> tabindex(rowIndex, colIndex)]
    /\ emitted' = << >>
    /\ UNCHANGED pickerVars
    /\ last' = [op |-> "getCell", arg |-> << rowIndex, colIndex >>, pre |-> Pre]
    /\ UNCHANGED << keyboardNavigationProp, columnCount, focusedCell, pendingFocus,
                    activeElement >>
    /\ UNCHANGED resizeVars
    /\ UNCHANGED tableVars

\* getHeaderCell(column, _index), for the column with this id
getHeaderCell(columnId) ==
    LET column == Columns[FindColumn(columnId)]
    IN  Returns("getHeaderCell", << columnId >>,
                [builder |-> "getHeaderCell", role |-> "columnheader",
                 ariaSort |-> ariaSort(column),
                 dataSortDirection |-> IF sortBy = column.id THEN sortDirection ELSE "undefined",
                 dataResizable |-> resizableColumns /\ column.resizable # "false",
                 dataValue |-> column.id,
                 width |-> getColumnWidth(column.id),
                 tabindex |-> IF column.sortable = "true" THEN 0 ELSE 0 - 1])

\* getResizeHandle(columnId)
getResizeHandle(columnId) ==
    Returns("getResizeHandle", << columnId >>,
            [builder |-> "getResizeHandle", class |-> "column-resize-handle",
             dataResizeHandle |-> columnId, ariaHidden |-> TRUE])

\* A read of totalPages.
ReadTotalPages ==
    Returns("totalPages", NULL, [builder |-> "totalPages", value |-> totalPages])

\* A call of getColumnWidth(columnId).
ReadColumnWidth(columnId) ==
    Returns("getColumnWidth", << columnId >>,
            [builder |-> "getColumnWidth", value |-> getColumnWidth(columnId)])

\* String(n) for a natural number n: its decimal digits.
DecimalDigits == << "0", "1", "2", "3", "4", "5", "6", "7", "8", "9" >>

RECURSIVE String(_)
String(n) ==
    IF n < 10 THEN DecimalDigits[n + 1]
    ELSE String(n \div 10) \o DecimalDigits[(n % 10) + 1]

\* getCellContent(column, row) for a column without a cell renderer:
\* String(row[column.accessor] ?? "").
getCellContent(column, row) ==
    IF IsNullish(row[column.accessor]) THEN "" ELSE String(row[column.accessor][1])

\* A call of getCellContent(column, row).
ReadCellContent(columnId, row) ==
    Returns("getCellContent", << columnId >>,
            [builder |-> "getCellContent",
             value |-> getCellContent(Columns[FindColumn(columnId)], row)])

----------------------------------------------------------------------------
(* The ColorPicker builder (packages/melt/src/lib/builders/ColorPicker.svelte):*)
(* the color cell, the HSV value and the position in the saturation area, *)
(* as the constructor, the color setter and the text input write them. A   *)
(* string is the sequence of its characters. A number is a fraction in     *)
(* lowest terms, or NaN; the model computes with exact fractions where the *)
(* code computes with doubles. The hue and alpha sliders (Slider.svelte)   *)
(* and the drag in the saturation area are not modelled.                   *)

Abs(x) == IF x < 0 THEN -x ELSE x

RECURSIVE GCD(_, _)
GCD(a, b) == IF b = 0 THEN a ELSE GCD(b, a % b)

NaN == [nan |-> TRUE, n |-> 0, d |-> 1]

\* n / d as a number, d # 0.
Number(n, d) ==
    LET g == GCD(Abs(n), Abs(d))
        sign == IF d < 0 THEN -1 ELSE 1
    IN  [nan |-> FALSE, n |-> (sign * n) \div g, d |-> (sign * d) \div g]

\* The arithmetic of the color setter on numbers: NaN in, NaN out.
Minus(x, y) == IF x.nan \/ y.nan THEN NaN ELSE Number(x.n * y.d - y.n * x.d, x.d * y.d)
Plus(x, y) == IF x.nan \/ y.nan THEN NaN ELSE Number(x.n * y.d + y.n * x.d, x.d * y.d)
Times(x, y) == IF x.nan \/ y.nan THEN NaN ELSE Number(x.n * y.n, x.d * y.d)
\* x / y: 0 / 0 is NaN; the setter divides by nothing else that is 0.
Divide(x, y) ==
    IF x.nan \/ y.nan \/ y.n = 0 THEN NaN ELSE Number(x.n * y.d, x.d * y.n)

\* x === y and x < y: false when either is NaN.
StrictEquals(x, y) == ~x.nan /\ ~y.nan /\ x = y
LessThan(x, y) == ~x.nan /\ ~y.nan /\ x.n * y.d < y.n * x.d

\* Math.max / Math.min of three numbers.
MathMax3(x, y, z) ==
    IF x.nan \/ y.nan \/ z.nan THEN NaN
    ELSE LET m == IF LessThan(x, y) THEN y ELSE x IN IF LessThan(m, z) THEN z ELSE m
MathMin3(x, y, z) ==
    IF x.nan \/ y.nan \/ z.nan THEN NaN
    ELSE LET m == IF LessThan(y, x) THEN y ELSE x IN IF LessThan(z, m) THEN z ELSE m

\* Math.round: the nearest integer, a half rounds up.
MathRound(x) == IF x.nan THEN NaN ELSE Number((2 * x.n + x.d) \div (2 * x.d), 1)

\* x % m for an integer m > 0: the remainder has the sign of x.
Remainder(x, m) ==
    IF x.nan THEN NaN
    ELSE LET q == (Abs(x.n) \div (x.d * m)) * (IF x.n < 0 THEN -1 ELSE 1)
         IN  Minus(x, Number(q * m, 1))

HexDigits == << "0", "1", "2", "3", "4", "5", "6", "7", "8", "9",
                "a", "b", "c", "d", "e", "f" >>
UpperHexDigits == << "0", "1", "2", "3", "4", "5", "6", "7", "8", "9",
                     "A", "B", "C", "D", "E", "F" >>

IsHexDigit(ch) == \E i \in 1..16 : ch \in {HexDigits[i], UpperHexDigits[i]}
HexValue(ch) == (CHOOSE i \in 1..16 : ch \in {HexDigits[i], UpperHexDigits[i]}) - 1

RECURSIVE HexPrefixValue(_, _)
\* The value of the longest prefix of hex digits of s, after the digits read
\* so far (acc); << >> if s starts with no digit and none was read.
HexPrefixValue(s, acc) ==
    IF Len(s) = 0 \/ ~IsHexDigit(Head(s)) THEN acc
    ELSE HexPrefixValue(Tail(s), << 16 * extract(acc, 0) + HexValue(Head(s)) >>)

RECURSIVE TrimStart(_)
TrimStart(s) == IF Len(s) > 0 /\ Head(s) = " " THEN TrimStart(Tail(s)) ELSE s

\* parseInt(s, 16): leading blanks, a sign and a 0x prefix are skipped, the
\* digits up to the first character that is none are read.
parseInt(s) ==
    LET t == TrimStart(s)
        signed == Len(t) > 0 /\ Head(t) \in {"+", "-"}
        u == IF signed THEN Tail(t) ELSE t
        w == IF Len(u) >= 2 /\ u[1] = "0" /\ u[2] \in {"x", "X"} THEN Tail(Tail(u)) ELSE u
        read == HexPrefixValue(w, Nullish)
    IN  IF IsNullish(read) THEN NaN
        ELSE Number(IF signed /\ Head(t) = "-" THEN -read[1] ELSE read[1], 1)

\* value.startsWith("#") && value.length >= 7
LooksLikeHex(value) == Len(value) >= 7 /\ value[1] = "#"

\* value.match(/^#[0-9A-Fa-f]{6}$/)
MatchesHex(value) ==
    /\ Len(value) = 7
    /\ value[1] = "#"
    /\ \A i \in 2..7 : IsHexDigit(value[i])

\* h of the setter, before rounding, in sixths of the circle.
Sector(r, g, b, max, d) ==
    IF StrictEquals(max, r) THEN Remainder(Divide(Minus(g, b), d), 6)
    ELSE IF StrictEquals(max, g) THEN Plus(Divide(Minus(b, r), d), Number(2, 1))
    ELSE Plus(Divide(Minus(r, g), d), Number(4, 1))

\* if (h < 0) h += 360
Wrapped(h) == IF LessThan(h, Number(0, 1)) THEN Plus(h, Number(360, 1)) ELSE h

\* h, s and v from the three channels, their maximum max and d = max - min.
HsvOfRange(r, g, b, max, d, a) ==
    [h |-> IF StrictEquals(d, Number(0, 1)) THEN Number(0, 1)
           ELSE Wrapped(MathRound(Times(Sector(r, g, b, max, d), Number(60, 1)))),
     s |-> IF StrictEquals(max, Number(0, 1)) THEN Number(0, 1)
           ELSE Times(Divide(d, max), Number(100, 1)),
     v |-> Times(max, Number(100, 1)),
     a |-> a]

HsvOfExtremes(r, g, b, max, min, a) == HsvOfRange(r, g, b, max, Minus(max, min), a)

HsvOfRgb(r, g, b, a) == HsvOfExtremes(r, g, b, MathMax3(r, g, b), MathMin3(r, g, b), a)

\* parseInt(value.slice(from, from + 2), 16) / 255
Channel(value, from) ==
    Divide(parseInt(ArraySlice(value, from, from + 2)), Number(255, 1))

\* The HSV value the constructor and the color setter compute from a string
\* that looks like a hex code, with alpha a.
HsvOfHex(value, a) ==
    HsvOfRgb(Channel(value, 1), Channel(value, 3), Channel(value, 5), a)

\* { h: 210, s: 100, v: 100, a: 1 }
DefaultHsv == [h |-> Number(210, 1), s |-> Number(100, 1), v |-> Number(100, 1),
               a |-> Number(1, 1)]

\* { x: hsv.s, y: 100 - hsv.v }
PositionOf(value) == [x |-> value.s, y |-> Minus(Number(100, 1), value.v)]

\* "#000000"
DefaultColor == << "#", "0", "0", "0", "0", "0", "0" >>

\* The HSV value the constructor derives from props.colorProp.
InitialHsv(colorProp) ==
    IF colorProp.given /\ (colorProp.isGetter \/ Len(colorProp.value) > 0) /\ LooksLikeHex(colorProp.value)
    THEN HsvOfHex(colorProp.value, Number(1, 1))
    ELSE DefaultHsv

\* The fields of a ColorPicker built with this color prop.
ColorPickerFields(colorProp) ==
    << SyncedNew(colorProp.given, colorProp.isGetter, colorProp.value, DefaultColor),
       InitialHsv(colorProp),
       PositionOf(InitialHsv(colorProp)) >>

\* new ColorPicker(props)
NewColorPicker(colorProp) ==
    /\ colorSynced' = ColorPickerFields(colorProp)[1]
    /\ hsv' = ColorPickerFields(colorProp)[2]
    /\ saturationPosition' = ColorPickerFields(colorProp)[3]
    /\ emitted' = << >>
    /\ last' = [op |-> "new ColorPicker", arg |-> colorProp.value, pre |-> Pre]
    /\ UNCHANGED tableVars
    /\ UNCHANGED resizeVars
    /\ UNCHANGED focusVars

\* color (get)
color == SyncedCurrent(colorSynced)

\* onColorChange(value), as the Synced cell of color calls it on a write
onColorChange(value) == << "onColorChange", value >>

\* color (set)
SetColor(value) ==
    /\ colorSynced' = SyncedWrite(colorSynced, value)
    /\ emitted' = << onColorChange(value) >>
    /\ IF LooksLikeHex(value)
       THEN /\ hsv' = HsvOfHex(value, hsv.a)
            /\ saturationPosition' = PositionOf(hsv')
       ELSE UNCHANGED << hsv, saturationPosition >>
    /\ last' = [op |-> "set color", arg |-> value, pre |-> Pre]
    /\ UNCHANGED tableVars
    /\ UNCHANGED resizeVars
    /\ UNCHANGED focusVars

\* input.oninput with this text in the field: the handler calls the color
\* setter or does nothing.
inputOninput(value) ==
    IF MatchesHex(value)
    THEN SetColor(value)
    ELSE /\ emitted' = << >>
         /\ last' = [op |-> "input oninput", arg |-> value, pre |-> Pre]
         /\ UNCHANGED << colorSynced, hsv, saturationPosition >>
         /\ UNCHANGED tableVars
         /\ UNCHANGED resizeVars
         /\ UNCHANGED focusVars

----------------------------------------------------------------------------
(* Props and construction *)

DefaultPage == 1
DefaultPageSize == 10

\* A prop that may be absent, a static value or a getter.
PropValues(values) == [given : BOOLEAN, isGetter : BOOLEAN, value : values]

Absent(value) == [given |-> FALSE, isGetter |-> FALSE, value |-> value]

\* n rows the pagination code can tell apart: row i has name i.
RowsOfLength(n) == [i \in 1..n |-> [name |-> << i >>, age |-> Nullish]]

\* Rows with equal, distinct and missing values in both accessors.
RowValues ==
    { [name |-> << 1 >>, age |-> << 2 >>],
      [name |-> << 1 >>, age |-> << 1 >>],
      [name |-> Nullish, age |-> << 1 >>],
      [name |-> << 2 >>, age |-> Nullish] }

DataSets == UNION { [1..n -> RowValues] : n \in 0..MaxViewRows }

\* constructor(props); the ColorPicker of the page is one built with no props.
Constructor(props) ==
    /\ colorSynced = ColorPickerFields(Absent(DefaultColor))[1]
    /\ hsv = ColorPickerFields(Absent(DefaultColor))[2]
    /\ saturationPosition = ColorPickerFields(Absent(DefaultColor))[3]
    /\ data = props.data
    /\ pagination = extract(props.pagination, FALSE)
    /\ sortBySynced =
         SyncedNew(TRUE, props.sortBy.given /\ props.sortBy.isGetter,
                   IF props.sortBy.given THEN props.sortBy.value ELSE NULL, NULL)
    /\ sortDirectionSynced =
         SyncedNew(TRUE, props.sortDirection.given /\ props.sortDirection.isGetter,
                   IF props.sortDirection.given THEN props.sortDirection.value ELSE NULL, NULL)
    /\ pageSynced =
         SyncedNew(props.page.given, props.page.isGetter, props.page.value, DefaultPage)
    /\ pageSizeSynced =
         SyncedNew(props.pageSize.given, props.pageSize.isGetter, props.pageSize.value,
                   DefaultPageSize)
    /\ view = << >>
    /\ emitted = << >>
    /\ resizableColumnsProp = props.resizableColumns
    /\ columnWidths = EmptyMap
    /\ isResizing = FALSE
    /\ resizingColumnId = NULL
    /\ resizeStartX = 0
    /\ resizeStartWidth = 0
    /\ listeners = NoListeners
    /\ bodyResizingClass = FALSE
    /\ bodyCursor = FALSE
    /\ pendingFrames = 0
    /\ pendingTimeouts = 0
    /\ resized = {}
    /\ handleHeld = FALSE
    /\ pressed = Nullish
    /\ keyboardNavigationProp = props.keyboardNavigation
    /\ columnCount = props.columns
    /\ focusedCell = Nullish
    /\ returned = [builder |-> "none"]
    /\ pendingFocus = << >>
    /\ activeElement = Nullish
    /\ last = [op |-> "constructor", arg |-> NULL,
               pre |-> [sortBy |-> NULL, sortDirection |-> NULL,
                        page |-> DefaultPage, pageSize |-> DefaultPageSize,
                        isResizing |-> FALSE]]

\* The owner of props.data changes the rows (data is a getter).
DataChange(n) ==
    /\ n # Len(data)
    /\ data' = RowsOfLength(n)
    /\ emitted' = << >>
    /\ UNCHANGED pickerVars
    /\ last' = [op |-> "owner data", arg |-> n, pre |-> Pre]
    /\ UNCHANGED focusVars
    /\ UNCHANGED resizeVars
    /\ UNCHANGED << pagination, sortBySynced, sortDirectionSynced, pageSynced, pageSizeSynced, view >>

\* The owner of props.pagination switches it (pagination is a getter).
PaginationChange ==
    /\ pagination' = ~pagination
    /\ emitted' = << >>
    /\ UNCHANGED pickerVars
    /\ last' = [op |-> "owner pagination", arg |-> NULL, pre |-> Pre]
    /\ UNCHANGED focusVars
    /\ UNCHANGED resizeVars
    /\ UNCHANGED << data, sortBySynced, sortDirectionSynced, pageSynced, pageSizeSynced, view >>

----------------------------------------------------------------------------
(* Specifications *)

\* The sort state: any sortBy / sortDirection props, no rows, no pagination.
InitSort ==
    \E sb \in PropValues(SortByValues), sd \in PropValues(SortDirections) :
        Constructor([data |-> << >>, pagination |-> << FALSE >>, sortBy |-> sb,
                     sortDirection |-> sd, page |-> Absent(DefaultPage),
                     pageSize |-> Absent(DefaultPageSize),
                     resizableColumns |-> Nullish,
                     keyboardNavigation |-> Nullish, columns |-> Len(Columns)])

NextSort ==
    \/ \E columnId \in ColumnIds \cup {UnknownId} : toggleSort(columnId)
    \/ \E value \in SortByValues : SetSortBy(value)
    \/ \E value \in SortDirections : SetSortDirection(value)
    \/ \E value \in SortByValues : OwnerSortBy(value)
    \/ \E value \in SortDirections : OwnerSortDirection(value)

SpecSort == InitSort /\ [][NextSort]_vars

\* The pagination state: any page / pageSize / pagination props, 0..MaxRows rows.
InitPage ==
    \E n \in 0..MaxRows, pg \in BOOLEAN,
       p \in PropValues(PageValues), ps \in PropValues(PageSizeValues) :
        Constructor([data |-> RowsOfLength(n), pagination |-> << pg >>,
                     sortBy |-> Absent(NULL), sortDirection |-> Absent(NULL),
                     page |-> p, pageSize |-> ps, resizableColumns |-> Nullish,
                     keyboardNavigation |-> Nullish, columns |-> Len(Columns)])

NextPage ==
    \/ nextPage
    \/ prevPage
    \/ \E target \in PageValues : goToPage(target)
    \/ \E value \in PageValues : SetPage(value)
    \/ \E value \in PageSizeValues : SetPageSize(value)
    \/ \E value \in PageValues : OwnerPage(value)
    \/ \E value \in PageSizeValues : OwnerPageSize(value)
    \/ \E n \in 0..MaxRows : DataChange(n)
    \/ PaginationChange

SpecPage == InitPage /\ [][NextPage]_vars

\* The sorted view: any rows, any static sortBy / sortDirection, no pagination.
InitView ==
    \E rows \in DataSets, sb \in SortByValues, sd \in SortDirections :
        Constructor([data |-> rows, pagination |-> << FALSE >>,
                     sortBy |-> [given |-> TRUE, isGetter |-> FALSE, value |-> sb],
                     sortDirection |-> [given |-> TRUE, isGetter |-> FALSE, value |-> sd],
                     page |-> Absent(DefaultPage), pageSize |-> Absent(DefaultPageSize),
                     resizableColumns |-> Nullish,
                     keyboardNavigation |-> Nullish, columns |-> Len(Columns)])

NextView == ReadData

SpecView == InitView /\ [][NextView]_vars

\* The whole table.
\* The public resize operations: any resizableColumns prop, no rows.
InitWidth ==
    \E rc \in {Nullish, << TRUE >>, << FALSE >>} :
        Constructor([data |-> << >>, pagination |-> << FALSE >>,
                     sortBy |-> Absent(NULL), sortDirection |-> Absent(NULL),
                     page |-> Absent(DefaultPage), pageSize |-> Absent(DefaultPageSize),
                     resizableColumns |-> rc,
                     keyboardNavigation |-> Nullish, columns |-> Len(Columns)])

NextWidth ==
    \/ \E columnId \in ColumnIds \cup {UnknownId}, width \in ProposedWidths :
         resizeColumn(columnId, width)
    \/ \E value \in BOOLEAN : ResizableColumnsChange(value)

SpecWidth == InitWidth /\ [][NextWidth]_vars

\* The drag gesture, with calls of resizeColumn between its events: static
\* resizableColumns, no rows.
InitResize ==
    \E rc \in {Nullish, << FALSE >>} :
        Constructor([data |-> << >>, pagination |-> << FALSE >>,
                     sortBy |-> Absent(NULL), sortDirection |-> Absent(NULL),
                     page |-> Absent(DefaultPage), pageSize |-> Absent(DefaultPageSize),
                     resizableColumns |-> rc,
                     keyboardNavigation |-> Nullish, columns |-> Len(Columns)])

NextResize ==
    \/ \E columnId \in CalledColumnIds, width \in DragProposedWidths :
         resizeColumn(columnId, width)
    \/ \E columnId \in HandleColumnIds, clientX \in ClientXs,
          headerCell \in HeaderCells : onmousedown(columnId, clientX, headerCell)
    \/ \E columnId \in HandleColumnIds, touches \in Touches,
          headerCell \in HeaderCells : ontouchstart(columnId, touches, headerCell)
    \/ \E clientX \in ClientXs : handleMouseMove(clientX)
    \/ \E touches \in Touches : handleTouchMove(touches)
    \/ \E type \in {"mouseup", "touchend"} : handleMouseUp(type)
    \/ AnimationFrame
    \/ Timeout

SpecResize == InitResize /\ [][NextResize]_vars

\* Keyboard navigation: 0..MaxFocusRows rows, 0..MaxFocusCols columns, pages
\* of two rows when pagination is on. The key events are the browser's: the
\* deferred focus call of one runs before the next is delivered, and the
\* table is the only one in the document.
InitFocus ==
    \E n \in 0..MaxFocusRows, c \in 0..MaxFocusCols, pg \in BOOLEAN,
       kn \in {Nullish, << FALSE >>} :
        Constructor([data |-> RowsOfLength(n), pagination |-> << pg >>,
                     sortBy |-> Absent(NULL), sortDirection |-> Absent(NULL),
                     page |-> Absent(DefaultPage),
                     pageSize |-> [given |-> TRUE, isGetter |-> FALSE, value |-> 2],
                     resizableColumns |-> Nullish,
                     keyboardNavigation |-> kn, columns |-> c])

NextFocus ==
    \/ \E rowIndex \in 0..(MaxFocusRows - 1), colIndex \in 0..(MaxFocusCols - 1),
          key \in Keys : pendingFocus = << >> /\ getCellOnkeydown(rowIndex, colIndex, key)
    \/ \E rowIndex \in 0..(MaxFocusRows - 1), colIndex \in 0..(MaxFocusCols - 1) :
          getCellOnfocus(rowIndex, colIndex)
    \/ \E n \in 0..MaxFocusRows : DataChange(n)
    \/ nextPage
    \/ prevPage
    \/ FocusStep(FALSE)

SpecFocus == InitFocus /\ [][NextFocus]_vars

\* Clicks on header cells between the events of a resize gesture: a default
\* table, the columns "name" (sortable) and "notes" (not sortable).
InitHeader ==
    Constructor([data |-> << >>, pagination |-> Nullish,
                 sortBy |-> Absent(NULL), sortDirection |-> Absent(NULL),
                 page |-> Absent(DefaultPage), pageSize |-> Absent(DefaultPageSize),
                 resizableColumns |-> Nullish,
                 keyboardNavigation |-> Nullish, columns |-> Len(Columns)])

NextHeader ==
    \/ \E columnId \in {"name", "age", "notes"}, targetInHandle \in BOOLEAN :
         getHeaderCellOnclick(columnId, targetInHandle)
    \/ \E columnId \in {"name", "notes"}, clientX \in ClientXs,
          headerCell \in HeaderCells : onmousedown(columnId, clientX, headerCell)
    \/ \E clientX \in ClientXs : handleMouseMove(clientX)
    \/ \E type \in {"mouseup", "touchend"} : handleMouseUp(type)
    \/ AnimationFrame
    \/ Timeout

SpecHeader == InitHeader /\ [][NextHeader]_vars

\* A table constructed with only data and columns, and reads of its data.
InitDefault ==
    \E rows \in DataSets :
        Constructor([data |-> rows, pagination |-> Nullish,
                     sortBy |-> Absent(NULL), sortDirection |-> Absent(NULL),
                     page |-> Absent(DefaultPage), pageSize |-> Absent(DefaultPageSize),
                     resizableColumns |-> Nullish,
                     keyboardNavigation |-> Nullish, columns |-> Len(Columns)])

NextDefault == ReadData

SpecDefault == InitDefault /\ [][NextDefault]_vars

\* The four Synced cells together: every prop absent, static or a getter,
\* over two values each; writes through the setters, changes by the owners.
SyncedSortByValues == {NULL, "name"}
SyncedSortDirections == {NULL, "asc"}
SyncedPageValues == {1, 2}
SyncedPageSizeValues == {5, 10}

InitSynced ==
    \E sb \in PropValues(SyncedSortByValues), sd \in PropValues(SyncedSortDirections),
       p \in PropValues(SyncedPageValues), ps \in PropValues(SyncedPageSizeValues) :
        Constructor([data |-> << >>, pagination |-> Nullish,
                     sortBy |-> sb, sortDirection |-> sd, page |-> p, pageSize |-> ps,
                     resizableColumns |-> Nullish,
                     keyboardNavigation |-> Nullish, columns |-> Len(Columns)])

NextSynced ==
    \/ \E value \in SyncedSortByValues : SetSortBy(value)
    \/ \E value \in SyncedSortDirections : SetSortDirection(value)
    \/ \E value \in SyncedPageValues : SetPage(value)
    \/ \E value \in SyncedPageSizeValues : SetPageSize(value)
    \/ \E value \in SyncedSortByValues : OwnerSortBy(value)
    \/ \E value \in SyncedSortDirections : OwnerSortDirection(value)
    \/ \E value \in SyncedPageValues : OwnerPage(value)
    \/ \E value \in SyncedPageSizeValues : OwnerPageSize(value)

SpecSynced == InitSynced /\ [][NextSynced]_vars

\* Rendering: operations and event handlers bring the table to a state, then
\* the attribute builders and read-only getters are called on it any number
\* of times, in any order. Three rows out of order in both accessors, pages
\* of two rows.
RenderData ==
    << [name |-> << 2 >>, age |-> Nullish],
       [name |-> << 1 >>, age |-> << 2 >>],
       [name |-> Nullish, age |-> << 1 >>] >>

InitRender ==
    Constructor([data |-> RenderData, pagination |-> << TRUE >>,
                 sortBy |-> Absent(NULL), sortDirection |-> Absent(NULL),
                 page |-> Absent(DefaultPage),
                 pageSize |-> [given |-> TRUE, isGetter |-> FALSE, value |-> 2],
                 resizableColumns |-> Nullish,
                 keyboardNavigation |-> Nullish, columns |-> Len(Columns)])

\* A builder or getter has been called since construction.
Rendering == returned.builder # "none" \/ last.op = "data"

NextRender ==
    \/ root
    \/ header
    \/ headerRow
    \/ body
    \/ footer
    \/ paginationAttrs
    \/ emptyState
    \/ getRow(1)
    \/ \E rowIndex \in 0..1 : getCell(rowIndex, 1)
    \/ \E columnId \in {"name", "notes"} : getHeaderCell(columnId)
    \/ getResizeHandle("name")
    \/ ReadData
    \/ ReadTotalPages
    \/ \E columnId \in {"name", UnknownId} : ReadColumnWidth(columnId)
    \/ \E row \in {RenderData[1], RenderData[2]} : ReadCellContent("age", row)
    \/ ~Rendering /\ toggleSort("name")
    \/ ~Rendering /\ nextPage
    \/ ~Rendering /\ prevPage
    \/ ~Rendering /\ getCellOnfocus(1, 1)
    \/ ~Rendering /\ getCellOnkeydown(1, 1, "ArrowUp")
    \/ ~Rendering /\ resizeColumn("name", 120)
    \/ ~Rendering /\ onmousedown("name", 0, << 100 >>)
    \/ ~Rendering /\ handleMouseUp("mouseup")
    \/ ~Rendering /\ Timeout

SpecRender == InitRender /\ [][NextRender]_vars

\* The supplied rows: the three rows of RenderData in every order, or none;
\* sorting by "name" and "age", pages of two rows when pagination is on, and
\* reads of the data getter between the calls.
SuppliedDataSets ==
    { << >> } \cup { [i \in 1..3 |-> RenderData[p[i]]] : p \in IndexPermutations(3) }

InitData ==
    \E rows \in SuppliedDataSets, pg \in BOOLEAN :
        Constructor([data |-> rows, pagination |-> << pg >>,
                     sortBy |-> Absent(NULL), sortDirection |-> Absent(NULL),
                     page |-> Absent(DefaultPage),
                     pageSize |-> [given |-> TRUE, isGetter |-> FALSE, value |-> 2],
                     resizableColumns |-> Nullish,
                     keyboardNavigation |-> Nullish, columns |-> Len(Columns)])

NextData ==
    \/ \E columnId \in {"name", "age"} : toggleSort(columnId)
    \/ nextPage
    \/ prevPage
    \/ \E target \in 0..3 : goToPage(target)
    \/ ReadData

SpecData == InitData /\ [][NextData]_vars

\* Navigation alone: the rows, pageSize and the pagination flag never change,
\* the page starts inside 1..totalPages, and goToPage is called with targets
\* on both sides of that range.
NavTargets == (0 - 1)..(MaxPage + 1)

InitNav ==
    /\ \E n \in 0..MaxRows, pg \in BOOLEAN, p \in PropValues(PageValues),
          ps \in PageSizeValues :
         Constructor([data |-> RowsOfLength(n), pagination |-> << pg >>,
                      sortBy |-> Absent(NULL), sortDirection |-> Absent(NULL),
                      page |-> p,
                      pageSize |-> [given |-> TRUE, isGetter |-> FALSE, value |-> ps],
                      resizableColumns |-> Nullish,
                      keyboardNavigation |-> Nullish, columns |-> Len(Columns)])
    /\ page >= 1
    /\ page <= totalPages

NextNav ==
    \/ nextPage
    \/ prevPage
    \/ \E target \in NavTargets : goToPage(target)

SpecNav == InitNav /\ [][NextNav]_vars

\* Pages of a sorted view: the supplied rows in every order, pagination on,
\* any static pageSize, sorting by "name" and "age", navigation and reads.
InitPages ==
    \E rows \in SuppliedDataSets, ps \in PageSizeValues :
        Constructor([data |-> rows, pagination |-> << TRUE >>,
                     sortBy |-> Absent(NULL), sortDirection |-> Absent(NULL),
                     page |-> Absent(DefaultPage),
                     pageSize |-> [given |-> TRUE, isGetter |-> FALSE, value |-> ps],
                     resizableColumns |-> Nullish,
                     keyboardNavigation |-> Nullish, columns |-> Len(Columns)])

NextPages ==
    \/ \E columnId \in {"name", "age"} : toggleSort(columnId)
    \/ nextPage
    \/ prevPage
    \/ ReadData

SpecPages == InitPages /\ [][NextPages]_vars

\* The transfer of DOM focus: a grid of two columns and up to two rows, key
\* and focus events on its cells in any order with the deferred focus calls,
\* a data getter whose owner changes the rows, and a document that may hold
\* another DataTable before this one.
InitTransfer ==
    Constructor([data |-> RowsOfLength(2), pagination |-> Nullish,
                 sortBy |-> Absent(NULL), sortDirection |-> Absent(NULL),
                 page |-> Absent(DefaultPage), pageSize |-> Absent(DefaultPageSize),
                 resizableColumns |-> Nullish,
                 keyboardNavigation |-> Nullish, columns |-> 2])

NextTransfer ==
    \/ \E rowIndex \in 0..1, colIndex \in 0..1, key \in Keys :
          getCellOnkeydown(rowIndex, colIndex, key)
    \/ \E rowIndex \in 0..1, colIndex \in 0..1 : getCellOnfocus(rowIndex, colIndex)
    \/ \E otherFirst \in BOOLEAN : FocusStep(otherFirst)
    \/ \E n \in 0..2 : DataChange(n)

SpecTransfer == InitTransfer /\ [][NextTransfer]_vars

\* The keyboard: keyboardNavigation absent, true or false; key events on the
\* cells of a grid of two rows and two columns and on the header cells of a
\* sortable column, a column with sortable: false and one that declares
\* nothing; the deferred focus calls; and getCell.
InitKeyboard ==
    \E kn \in {Nullish, << TRUE >>, << FALSE >>} :
        Constructor([data |-> RowsOfLength(2), pagination |-> Nullish,
                     sortBy |-> Absent(NULL), sortDirection |-> Absent(NULL),
                     page |-> Absent(DefaultPage), pageSize |-> Absent(DefaultPageSize),
                     resizableColumns |-> Nullish,
                     keyboardNavigation |-> kn, columns |-> Len(Columns)])

NextKeyboard ==
    \/ \E rowIndex \in 0..1, colIndex \in 0..1, key \in Keys :
          pendingFocus = << >> /\ getCellOnkeydown(rowIndex, colIndex, key)
    \/ \E columnId \in {"name", "notes", "email"}, key \in HeaderKeys :
          getHeaderCellOnkeydown(columnId, key)
    \/ \E rowIndex \in 0..1, colIndex \in 0..1 : getCell(rowIndex, colIndex)
    \/ FocusStep(FALSE)

SpecKeyboard == InitKeyboard /\ [][NextKeyboard]_vars

\* The ColorPicker: built with no color, a static color or a getter; the
\* color setter and the text input receive well-formed hex codes and strings
\* that are none.
ColorInputs ==
    { << "#", "f", "f", "0", "0", "0", "0" >>,
      << "#", "0", "0", "0", "0", "F", "f" >>,
      << "#", "8", "0", "4", "0", "2", "0" >>,
      << "#", "g", "g", "0", "0", "0", "0" >>,
      << "#", "f", "0", "0", "x", "f", "f" >>,
      << "#", "0", "0", "f", "f", "0", "0", "8", "0" >>,
      << "#", "f", "f", "0", "0" >>,
      << "f", "f", "0", "0", "0", "0" >>,
      << "r", "e", "d" >>,
      << >> }

InitPicker ==
    Constructor([data |-> RowsOfLength(0), pagination |-> Nullish,
                 sortBy |-> Absent(NULL), sortDirection |-> Absent(NULL),
                 page |-> Absent(DefaultPage), pageSize |-> Absent(DefaultPageSize),
                 resizableColumns |-> Nullish,
                 keyboardNavigation |-> Nullish, columns |-> Len(Columns)])

NextPicker ==
    \/ \E given \in BOOLEAN, isGetter \in BOOLEAN, value \in ColorInputs :
          /\ ~given => (~isGetter /\ value = DefaultColor)
          /\ last.op = "constructor"
          /\ NewColorPicker([given |-> given, isGetter |-> isGetter, value |-> value])
    \/ \E value \in ColorInputs : SetColor(value)
    \/ \E value \in ColorInputs : inputOninput(value)

SpecPicker == InitPicker /\ [][NextPicker]_vars

\* Sorting and cell navigation next to pagination and resizing: three rows
\* in pages of two, the page turned, a width stored by resizeColumn, a resize
\* session opened by a press on the handle of "name", and then toggleSort
\* and key events on the cells.
InitFrame ==
    Constructor([data |-> RowsOfLength(3), pagination |-> << TRUE >>,
                 sortBy |-> Absent(NULL), sortDirection |-> Absent(NULL),
                 page |-> Absent(DefaultPage),
                 pageSize |-> [given |-> TRUE, isGetter |-> FALSE, value |-> 2],
                 resizableColumns |-> Nullish,
                 keyboardNavigation |-> Nullish, columns |-> Len(Columns)])

NextFrame ==
    \/ \E columnId \in {"name", "age", "notes"} : toggleSort(columnId)
    \/ \E rowIndex \in 0..1, colIndex \in 0..1, key \in Keys :
          pendingFocus = << >> /\ getCellOnkeydown(rowIndex, colIndex, key)
    \/ FocusStep(FALSE)
    \/ nextPage
    \/ prevPage
    \/ columnWidths = EmptyMap /\ resizeColumn("name", 120)
    \/ ~isResizing /\ onmousedown("name", 60, << 100 >>)

SpecFrame == InitFrame /\ [][NextFrame]_vars

Init == InitSort \/ InitPage \/ InitView \/ InitWidth \/ InitResize \/ InitFocus \/ InitHeader \/ InitDefault \/ InitSynced \/ InitRender \/ InitData \/ InitNav \/ InitPages \/ InitTransfer \/ InitKeyboard \/ InitPicker \/ InitFrame

Next == NextSort \/ NextPage \/ NextView \/ NextWidth \/ NextResize \/ NextFocus \/ NextHeader \/ NextDefault \/ NextSynced \/ NextRender \/ NextData \/ NextNav \/ NextPages \/ NextTransfer \/ NextKeyboard \/ NextPicker \/ NextFrame

Spec == Init /\ [][Next]_vars

----------------------------------------------------------------------------
(* Claims C1 - C4: the sort state (SpecSort) *)

\* The cycle the documentation gives: asc -> desc -> null -> asc.
CycleSuccessor(direction) ==
    IF direction = "asc" THEN "desc" ELSE IF direction = "desc" THEN NULL ELSE "asc"

\* The column is declared with sortable: true.
DeclaredSortable(columnId) ==
    \E i \in 1..Len(Columns) : Columns[i].id = columnId /\ Columns[i].sortable = "true"

SortCellsOwned == sortBySynced.owned /\ sortDirectionSynced.owned

\* What C1 says a toggleSort(c) on a sortable column c leaves behind.
ToggleOutcome ==
    IF last.pre.sortBy = last.arg
    THEN sortBy = last.arg /\ sortDirection = CycleSuccessor(last.pre.sortDirection)
    ELSE sortBy = last.arg /\ sortDirection = "asc"

\* C1, as stated: after toggleSort(c) on a sortable column c, from any sort
\* state, the direction is the cycle successor (asc -> desc -> null -> asc)
\* of the one before when c was the sort column, and (c, asc) otherwise.
C1_ToggleCycleAnyCell ==
    (last.op = "toggleSort" /\ DeclaredSortable(last.arg)) => ToggleOutcome

\* C1, amended: the same, for a table whose sortBy and sortDirection cells are
\* self-owned (constructed from static values, not getters).
C1_ToggleCycle ==
    (last.op = "toggleSort" /\ DeclaredSortable(last.arg) /\ SortCellsOwned)
        => ToggleOutcome

\* C1 witness: the cycle wraps around, toggling the sort column from null
\* back to asc.
C1_Witness ==
    /\ last.op = "toggleSort" /\ last.arg = "age" /\ SortCellsOwned
    /\ last.pre.sortBy = "age" /\ last.pre.sortDirection = NULL
    /\ sortBy = "age" /\ sortDirection = "asc"

\* C2: on self-owned cells, toggleSort(c) from (null, null) gives (c, asc),
\* from (c, asc) gives (c, desc), and from (c, desc) gives sortDirection null
\* and sortBy reset to null.
C2_ThirdToggleResetsSortBy ==
    (last.op = "toggleSort" /\ DeclaredSortable(last.arg) /\ SortCellsOwned) =>
        /\ (last.pre.sortBy = NULL /\ last.pre.sortDirection = NULL)
              => (sortBy = last.arg /\ sortDirection = "asc")
        /\ (last.pre.sortBy = last.arg /\ last.pre.sortDirection = "asc")
              => (sortBy = last.arg /\ sortDirection = "desc")
        /\ (last.pre.sortBy = last.arg /\ last.pre.sortDirection = "desc")
              => (sortBy = NULL /\ sortDirection = NULL)

\* C3, as stated: in every reachable state sortDirection is non-null only if
\* sortBy is non-null.
C3_DirectionNeedsColumn == sortDirection # NULL => sortBy # NULL

\* C3, amended: toggleSort on self-owned cells keeps the property: if
\* sortDirection was non-null only with sortBy non-null before the call, so it
\* is after it.
C3_ToggleKeepsDirectionNeedsColumn ==
    ( /\ last.op = "toggleSort" /\ SortCellsOwned
      /\ (last.pre.sortDirection # NULL => last.pre.sortBy # NULL) )
        => (sortDirection # NULL => sortBy # NULL)

\* C3 witness: a first toggle from the unsorted state, which sets both fields.
C3_Witness ==
    /\ last.op = "toggleSort" /\ SortCellsOwned
    /\ last.pre.sortBy = NULL /\ last.pre.sortDirection = NULL
    /\ sortBy = "name" /\ sortDirection = "asc"

\* C4: toggleSort(id) with id naming no column, or a column whose sortable
\* flag is false or absent, leaves sortBy and sortDirection as they were and
\* invokes no callback.
C4_ToggleSortNoOp ==
    (last.op = "toggleSort" /\ ~DeclaredSortable(last.arg)) =>
        /\ sortBy = last.pre.sortBy
        /\ sortDirection = last.pre.sortDirection
        /\ emitted = << >>

\* C4 witness: toggleSort on the column declared sortable: false while the
\* table is sorted by name, ascending.
C4_Witness ==
    /\ last.op = "toggleSort" /\ last.arg = "notes"
    /\ last.pre.sortBy = "name" /\ last.pre.sortDirection = "asc"
    /\ sortBy = "name" /\ sortDirection = "asc"

----------------------------------------------------------------------------
(* Claims C5 - C6: the sorted view (SpecView) *)

\* The view was sorted by a column that exists and has no sortFn.
DefaultSorted ==
    /\ sortBy # NULL /\ sortDirection # NULL
    /\ \E i \in 1..Len(Columns) : Columns[i].id = sortBy
    /\ ~Columns[CHOOSE i \in 1..Len(Columns) : Columns[i].id = sortBy].sortFn

\* The sort key of raw row i: its value under the sort column's accessor.
SortKey(i) ==
    data[i][Columns[CHOOSE c \in 1..Len(Columns) : Columns[c].id = sortBy].accessor]

\* C5: the sorted view is stable: two rows with equal sort keys (both null
\* included) appear in the view in their raw order, for either direction.
C5_StableSort ==
    (last.op = "data" /\ DefaultSorted) =>
        \A i, j \in 1..Len(view) :
            (i < j /\ SortKey(view[i]) = SortKey(view[j])) => view[i] < view[j]

\* C6: with the default comparator, ascending puts every row with a null key
\* before every row with a value and the values in non-decreasing order;
\* descending puts the null keys last and the values in non-increasing order.
C6_NullOrdering ==
    (last.op = "data" /\ DefaultSorted) =>
        \A i, j \in 1..Len(view) :
            i < j =>
                LET ki == SortKey(view[i])
                    kj == SortKey(view[j])
                IN  IF sortDirection = "asc"
                    THEN /\ IsNullish(kj) => IsNullish(ki)
                         /\ (~IsNullish(ki) /\ ~IsNullish(kj)) => ki[1] <= kj[1]
                    ELSE /\ IsNullish(ki) => IsNullish(kj)
                         /\ (~IsNullish(ki) /\ ~IsNullish(kj)) => ki[1] >= kj[1]

\* C6 witness: three rows read sorted by name, descending, the raw data
\* starting with a missing name followed by two different names in rising
\* order: the view is the raw order reversed.
C6_Witness ==
    /\ last.op = "data" /\ sortBy = "name" /\ sortDirection = "desc"
    /\ Len(data) = 3 /\ Len(view) = 3
    /\ IsNullish(data[1].name) /\ data[2].name = << 1 >> /\ data[3].name = << 2 >>
    /\ view = << 3, 2, 1 >>

----------------------------------------------------------------------------
(* Claims C7 - C10: pagination (SpecPage) *)

Min(a, b) == IF a < b THEN a ELSE b
Max(a, b) == IF a > b THEN a ELSE b

\* ceil(a / b) for a >= 0 and b >= 1: the least q with q * b >= a.
CeilOf(a, b) == CHOOSE q \in 0..a : q * b >= a /\ \A r \in 0..a : r * b >= a => q <= r

\* The 0-based positions of page `page`: (page-1)*pageSize up to, not
\* including, page*pageSize.
PageStart == (page - 1) * pageSize
PageEnd == page * pageSize

\* The rows of s at the 0-based positions [PageStart, PageEnd) that exist.
PageSliceOf(s) ==
    LET from  == Max(PageStart, 0)
        to    == Min(PageEnd, Len(s))
    IN  IF to > from THEN [i \in 1..(to - from) |-> s[from + i]] ELSE << >>

\* C7: with pagination enabled the data getter returns the rows of the sorted
\* view at positions [(page-1)*pageSize, page*pageSize), so (for a page that
\* starts at a position >= 0) min(pageSize, rows remaining from there) of them;
\* with pagination disabled it returns rawLength rows. For every page and
\* pageSize the public operations can produce.
C7_DataIsPageSlice ==
    IF enablePagination
    THEN /\ dataGetter = { PageSliceOf(s) : s \in getSortedData(data) }
         /\ (PageStart >= 0 /\ pageSize >= 0) =>
               \A v \in dataGetter :
                   Len(v) = Min(pageSize, Max(0, Len(data) - PageStart))
    ELSE \A v \in dataGetter : Len(v) = Len(data)

\* C8, as stated: for every pageSize >= 1, totalPages is
\* max(1, ceil(rawLength / pageSize)), whether or not pagination is enabled.
C8_TotalPagesAnyMode ==
    pageSize >= 1 => totalPages = Max(1, CeilOf(Len(data), pageSize))

\* C8, amended: for every pageSize >= 1, totalPages is
\* max(1, ceil(rawLength / pageSize)) when pagination is enabled and 1 when
\* it is disabled.
C8_TotalPages ==
    pageSize >= 1 =>
        totalPages = IF enablePagination
                     THEN Max(1, CeilOf(Len(data), pageSize))
                     ELSE 1

\* C8 witness: 10 rows in pages of 3 give 4 pages, the last one partial.
C8_Witness ==
    enablePagination /\ Len(data) = 10 /\ pageSize = 3 /\ totalPages = 4

\* C9, as stated: goToPage(n) sets page to n when 1 <= n <= totalPages, and
\* otherwise leaves page alone and invokes no callback; n is never clamped.
C9_GoToPageSetsPage ==
    last.op = "goToPage" =>
        IF 1 <= last.arg /\ last.arg <= totalPages
        THEN page = last.arg
        ELSE page = last.pre.page /\ emitted = << >>

\* C9, amended: goToPage(n) with 1 <= n <= totalPages writes n to the page
\* cell: a self-owned page becomes n, a getter-bound page keeps its getter's
\* value, and onPageChange(n) is invoked once either way; for any other n
\* page is unchanged and no callback is invoked (n is never clamped).
C9_GoToPage ==
    last.op = "goToPage" =>
        IF 1 <= last.arg /\ last.arg <= totalPages
        THEN /\ page = IF pageSynced.owned THEN last.arg ELSE last.pre.page
             /\ emitted = << << "onPageChange", last.arg >> >>
        ELSE page = last.pre.page /\ emitted = << >>

\* C9 witness: goToPage(3) on page 2 of 2 changes nothing.
C9_Witness ==
    /\ last.op = "goToPage" /\ last.arg = 3
    /\ enablePagination /\ totalPages = 2
    /\ last.pre.page = 2 /\ page = 2 /\ pageSynced.owned /\ emitted = << >>

\* C10, as stated: nextPage() adds exactly 1 to page when page < totalPages
\* and leaves it alone otherwise; prevPage() subtracts exactly 1 when page > 1
\* and leaves it alone otherwise.
C10_NextPrevPageMovePage ==
    /\ last.op = "nextPage" =>
          page = IF last.pre.page < totalPages THEN last.pre.page + 1 ELSE last.pre.page
    /\ last.op = "prevPage" =>
          page = IF last.pre.page > 1 THEN last.pre.page - 1 ELSE last.pre.page

\* C10, amended: on a self-owned page cell nextPage() adds exactly 1 when
\* page < totalPages and prevPage() subtracts exactly 1 when page > 1; on a
\* getter-bound page they invoke onPageChange with that target and page keeps
\* its getter's value; outside those conditions page is unchanged and no
\* callback is invoked.
C10_NextPrevPage ==
    /\ last.op = "nextPage" =>
          IF last.pre.page < totalPages
          THEN /\ page = IF pageSynced.owned THEN last.pre.page + 1 ELSE last.pre.page
               /\ emitted = << << "onPageChange", last.pre.page + 1 >> >>
          ELSE page = last.pre.page /\ emitted = << >>
    /\ last.op = "prevPage" =>
          IF last.pre.page > 1
          THEN /\ page = IF pageSynced.owned THEN last.pre.page - 1 ELSE last.pre.page
               /\ emitted = << << "onPageChange", last.pre.page - 1 >> >>
          ELSE page = last.pre.page /\ emitted = << >>

\* C10 witness: 10 rows, pageSize 5, so 2 pages; nextPage() on page 2 changes
\* nothing.
C10_Witness ==
    /\ last.op = "nextPage" /\ enablePagination
    /\ Len(data) = 10 /\ pageSize = 5 /\ totalPages = 2
    /\ pageSynced.owned /\ last.pre.page = 2 /\ page = 2 /\ emitted = << >>

----------------------------------------------------------------------------
(* Claims C11 - C12: page bounds (SpecPage) *)

NavigationOps == {"nextPage", "prevPage", "goToPage"}

\* C11: when page is outside [1, totalPages] before a navigation call
\* (nextPage, prevPage or goToPage) on a self-owned page cell, it is inside
\* [1, totalPages] after the call.
C11_NavigationRestoresRange ==
    ( /\ last.op \in NavigationOps /\ pageSynced.owned
      /\ (last.pre.page < 1 \/ last.pre.page > totalPages) )
        => (1 <= page /\ page <= totalPages)

\* C12: every mutation point keeps the bounds on self-owned cells: after the
\* page setter, and after a navigation call that started from page >= 1,
\* page >= 1; after the pageSize setter, pageSize >= 1.
C12_MutationsKeepBounds ==
    /\ (last.op = "set page" /\ pageSynced.owned) => page >= 1
    /\ (last.op \in NavigationOps /\ pageSynced.owned /\ last.pre.page >= 1) => page >= 1
    /\ (last.op = "set pageSize" /\ pageSizeSynced.owned) => pageSize >= 1

----------------------------------------------------------------------------
(* Claims C13 - C20: column resizing (SpecWidth, SpecResize) *)

\* The limits a column declares: minWidth, 50 when it declares none, and
\* maxWidth, none when it declares none.
LowerLimit(columnId) ==
    IF Columns[FindColumn(columnId)].minWidth = << >> THEN 50
    ELSE Columns[FindColumn(columnId)].minWidth[1]

HasUpperLimit(columnId) == Columns[FindColumn(columnId)].maxWidth # << >>

UpperLimit(columnId) == Columns[FindColumn(columnId)].maxWidth[1]

\* C13 as stated: after any sequence of resizeColumn calls and drag moves,
\* every stored width w of every column satisfies minWidth <= w <= maxWidth
\* (minWidth defaulting to 50, maxWidth to unbounded).
C13_WidthWithinLimits ==
    \A columnId \in DOMAIN columnWidths :
        /\ LowerLimit(columnId) <= columnWidths[columnId]
        /\ HasUpperLimit(columnId) => columnWidths[columnId] <= UpperLimit(columnId)

\* C13, amended: every stored width w satisfies minWidth <= w, and w <= maxWidth
\* when the column's limits allow it (minWidth <= maxWidth); a column whose
\* maxWidth is below its minWidth stores exactly minWidth.
C13_WidthClamped ==
    \A columnId \in DOMAIN columnWidths :
        /\ LowerLimit(columnId) <= columnWidths[columnId]
        /\ (HasUpperLimit(columnId) /\ LowerLimit(columnId) <= UpperLimit(columnId))
              => columnWidths[columnId] <= UpperLimit(columnId)
        /\ (HasUpperLimit(columnId) /\ LowerLimit(columnId) > UpperLimit(columnId))
              => columnWidths[columnId] = LowerLimit(columnId)

\* A drag move was clamped up to the minWidth of "name", a call stored a width
\* for "age" (minWidth only), and a drag stored one for "rank" (maxWidth only,
\* below the default minWidth).
C13_Witness ==
    /\ last.op \in {"mousemove", "touchmove"}
    /\ {"name", "age", "rank"} \subseteq DOMAIN columnWidths
    /\ columnWidths["name"] = 50
    /\ columnWidths["rank"] = 50

\* A known column not declared resizable: false, while resizing is enabled.
MayResize(columnId) ==
    /\ columnId \in ColumnIds
    /\ Columns[FindColumn(columnId)].resizable # "false"
    /\ resizableColumnsProp # << FALSE >>

\* w clamped to [lo, hi], the lower limit winning.
ClampTo(w, lo, hi) == Max(lo, Min(hi, w))

Clamped(columnId, w) ==
    IF HasUpperLimit(columnId)
    THEN ClampTo(w, LowerLimit(columnId), UpperLimit(columnId))
    ELSE Max(LowerLimit(columnId), w)

\* C14: for a known, resizable column with resizing enabled, resizeColumn(id, w)
\* stores the clamped width, getColumnWidth(id) then returns "<clamped>px",
\* onColumnResize is invoked exactly once with (id, clamped), and the width of
\* every other column is unchanged.
C14_ResizeColumnStores ==
    [][ \A columnId \in ColumnIds, w \in ProposedWidths :
          ( /\ last'.op = "resizeColumn"
            /\ last'.arg = << columnId, w >>
            /\ MayResize(columnId) ) =>
              /\ columnId \in DOMAIN columnWidths'
              /\ columnWidths'[columnId] = Clamped(columnId, w)
              /\ getColumnWidth(columnId)' = [n |-> Clamped(columnId, w), unit |-> "px"]
              /\ emitted' = << << "onColumnResize", columnId, Clamped(columnId, w) >> >>
              /\ \A other \in (ColumnIds \cup {UnknownId}) \ {columnId} :
                    getColumnWidth(other)' = getColumnWidth(other) ]_vars

\* resizeColumn("name", 500) stored 200 while "age" already had an override.
C14_Witness ==
    /\ last.op = "resizeColumn"
    /\ last.arg = << "name", 500 >>
    /\ "age" \in DOMAIN columnWidths
    /\ getColumnWidth("name") = [n |-> 200, unit |-> "px"]
    /\ emitted = << << "onColumnResize", "name", 200 >> >>

\* The width a column declares, "auto" when it declares none or is unknown.
DeclaredWidth(columnId) ==
    IF columnId \notin ColumnIds THEN [n |-> 0, unit |-> "auto"]
    ELSE IF Columns[FindColumn(columnId)].width = << >> THEN [n |-> 0, unit |-> "auto"]
    ELSE Columns[FindColumn(columnId)].width[1]

\* C15: getColumnWidth(id) returns the stored override as "<n>px" iff column id
\* has been successfully resized at least once, and otherwise the declared
\* width, or "auto" when none is declared or the id is unknown; the override
\* map has entries only for columns that were resized.
C15_GetColumnWidth ==
    /\ DOMAIN columnWidths = resized
    /\ \A columnId \in ColumnIds \cup {UnknownId} :
          IF columnId \in resized
          THEN getColumnWidth(columnId) = [n |-> columnWidths[columnId], unit |-> "px"]
          ELSE getColumnWidth(columnId) = DeclaredWidth(columnId)

\* "name" (declared "100px") was resized to 120 and reads "120px"; "age" was
\* not and reads its declared "10%"; resizeColumn was refused for "notes".
C15_Witness ==
    /\ last.op = "resizeColumn"
    /\ resized = {"name"}
    /\ getColumnWidth("name") = [n |-> 120, unit |-> "px"]
    /\ getColumnWidth("age") = [n |-> 10, unit |-> "%"]
    /\ last.arg[1] = "notes"

\* C16: resizeColumn(id, w) is a silent no-op when the id is unknown, the
\* column has resizable === false, or resizableColumns is false: the stored
\* widths are unchanged and onColumnResize is not invoked. A pointer-down or
\* touch-start on the resize handle of such a column leaves the resize
\* session as it was (Idle stays Idle) and attaches no document listener.
C16_NotResizableNoOp ==
    [][ \A columnId \in ColumnIds \cup {UnknownId} :
          /\ ( /\ last'.op = "resizeColumn"
                /\ last'.arg[1] = columnId
                /\ ~MayResize(columnId) ) =>
                  /\ columnWidths' = columnWidths
                  /\ emitted' = << >>
          /\ ( /\ last'.op \in {"onmousedown", "ontouchstart"}
                /\ last'.arg = columnId
                /\ ~MayResize(columnId) ) =>
                  /\ isResizing' = isResizing
                  /\ resizingColumnId' = resizingColumnId
                  /\ resizeStartX' = resizeStartX
                  /\ resizeStartWidth' = resizeStartWidth
                  /\ listeners' = listeners
                  /\ bodyResizingClass' = bodyResizingClass
                  /\ columnWidths' = columnWidths
                  /\ emitted' = << >> ]_vars

\* The handle of "notes" (resizable: false) was pressed while resizing is
\* enabled and other columns have been resized: the session is Idle and the
\* document has no listener.
C16_Witness ==
    /\ last.op \in {"onmousedown", "ontouchstart"}
    /\ last.arg = "notes"
    /\ resizableColumns
    /\ resized # {}
    /\ ~isResizing
    /\ resizingColumnId = NULL
    /\ listeners = NoListeners

ReleaseOps == {"mouseup", "touchend"}

\* C17: every session that has entered Dragging (isResizing = true after a
\* handle pointer-down / touch-start) is ended by the next pointer / touch
\* release anywhere in the document: after a release isResizing = false,
\* resizingColumnId = null, resizeStartX = 0 and resizeStartWidth = 0.
C17_ReleaseEndsSession ==
    last.op \in ReleaseOps =>
        /\ ~isResizing
        /\ resizingColumnId = NULL
        /\ resizeStartX = 0
        /\ resizeStartWidth = 0

\* C18: the document listeners of the gesture are attached exactly while a
\* session is active: listeners are attached iff isResizing is true, at most
\* one set of four is attached at any time, and after a release none remain.
C18_ListenersIffResizing ==
    /\ (listeners # NoListeners) <=> isResizing
    /\ \A type \in DOMAIN listeners : listeners[type] <= 1
    /\ last.op \in ReleaseOps => listeners = NoListeners

\* C19: once a session has ended and every callback deferred during the
\* gesture has run, in any interleaving with the release, document.body has
\* neither the "resizing" class nor an inline col-resize cursor.
C19_BodyCleanAfterSession ==
    ( /\ ~isResizing
      /\ listeners = NoListeners
      /\ pendingFrames = 0
      /\ pendingTimeouts = 0 )
        => (~bodyResizingClass /\ ~bodyCursor)

\* C20: mousemove / touchmove events delivered while no resize session is
\* active (no handle pressed since the last release, or isResizing false)
\* change no column width and invoke no onColumnResize.
C20_StrayMovesIgnored ==
    [][ ( /\ last'.op \in {"mousemove", "touchmove"}
          /\ (~handleHeld \/ ~isResizing) )
            => (columnWidths' = columnWidths /\ emitted' = << >>) ]_vars

\* A move event arrived after the release that ended a drag of "name": the
\* timeout of that release has not run yet, and no handle is held.
C20_Witness ==
    /\ last.op \in {"mousemove", "touchmove"}
    /\ ~handleHeld
    /\ ~isResizing
    /\ pendingTimeouts > 0
    /\ "name" \in DOMAIN columnWidths

----------------------------------------------------------------------------
(* Claims C21 - C22: keyboard navigation (SpecFocus) *)

\* An arrow key was handled by a cell while keyboard navigation is enabled.
ArrowKeyHandled ==
    /\ last.op = "cell onkeydown"
    /\ last.arg.key \in {"ArrowUp", "ArrowDown", "ArrowLeft", "ArrowRight"}
    /\ keyboardNavigationProp # << FALSE >>

\* C21 as stated: after any arrow keydown handled by a cell, the cursor
\* satisfies 0 <= rowIndex <= rowCount - 1 and 0 <= colIndex <= colCount - 1,
\* for every table size, an empty data view or column list included.
C21_CursorInGrid ==
    ArrowKeyHandled =>
        /\ focusedCell # << >>
        /\ 0 <= focusedCell[1].rowIndex
        /\ focusedCell[1].rowIndex <= DataLength - 1
        /\ 0 <= focusedCell[1].colIndex
        /\ focusedCell[1].colIndex <= columnCount - 1

\* C21, amended: after an arrow keydown the cursor's rowIndex is within
\* [0, rowCount - 1] when the data view has rows and is -1 when it has none;
\* its colIndex is within [0, colCount - 1] when there are columns and is -1
\* when there are none.
C21_CursorBounded ==
    ArrowKeyHandled =>
        /\ focusedCell # << >>
        /\ IF DataLength >= 1
           THEN 0 <= focusedCell[1].rowIndex /\ focusedCell[1].rowIndex <= DataLength - 1
           ELSE focusedCell[1].rowIndex = 0 - 1
        /\ IF columnCount >= 1
           THEN 0 <= focusedCell[1].colIndex /\ focusedCell[1].colIndex <= columnCount - 1
           ELSE focusedCell[1].colIndex = 0 - 1

\* ArrowDown on the last row of a grid of at least two rows: the cursor stays
\* on the last row.
C21_Witness ==
    /\ ArrowKeyHandled
    /\ last.arg.key = "ArrowDown"
    /\ DataLength >= 2
    /\ columnCount >= 1
    /\ last.arg.rowIndex = DataLength - 1
    /\ focusedCell = << [rowIndex |-> DataLength - 1, colIndex |-> last.arg.colIndex] >>

\* The cells of the rendered grid.
GridCells == (0..(DataLength - 1)) \X (0..(columnCount - 1))

\* C22: with keyboardNavigation enabled and a non-empty grid, in every
\* reachable state getCell yields tabindex 0 for exactly one cell of the
\* rendered grid and tabindex -1 for all the others.
C22_OneTabbableCell ==
    (keyboardNavigationProp # << FALSE >> /\ GridCells # {}) =>
        /\ Cardinality({ cell \in GridCells : tabindex(cell[1], cell[2]) = << 0 >> }) = 1
        /\ \A cell \in GridCells : tabindex(cell[1], cell[2]) \in { << 0 >>, << 0 - 1 >> }

----------------------------------------------------------------------------
(* Claim C23: aria-sort (SpecSort) *)

\* C23: for every column and every reachable sort state, aria-sort of the
\* header cell is "ascending" iff the column is the sort column and
\* sortDirection is asc, "descending" iff it is the sort column and
\* sortDirection is desc, and absent otherwise, in particular when
\* sortDirection is null.
C23_AriaSort ==
    \A i \in 1..Len(Columns) :
        /\ ariaSort(Columns[i]) = "ascending"
              <=> (Columns[i].id = sortBy /\ sortDirection = "asc")
        /\ ariaSort(Columns[i]) = "descending"
              <=> (Columns[i].id = sortBy /\ sortDirection = "desc")
        /\ ariaSort(Columns[i]) = "undefined"
              <=> ~(Columns[i].id = sortBy /\ sortDirection \in {"asc", "desc"})

----------------------------------------------------------------------------
(* Claim C24: header clicks and resizing (SpecHeader) *)

\* C24: a click on the header cell of a sortable column toggles that column's
\* sort, but no click delivered while a resize is in progress on a header
\* changes sortBy or sortDirection, and neither does the click that completes
\* a resize drag (the click that follows the release, before the timeout of
\* the release has run).
C24_NoSortWhileResizing ==
    ( /\ last.op = "toggleSort"
      /\ (last.pre.isResizing \/ pendingTimeouts > 0) )
        => (sortBy = last.pre.sortBy /\ sortDirection = last.pre.sortDirection)

----------------------------------------------------------------------------
(* Claim C25: the default state (SpecDefault) *)

\* C25: a DataTable constructed with only data and columns has sortBy = null,
\* sortDirection = null, enablePagination = false, page = 1, pageSize = 10,
\* keyboardNavigation = true, resizableColumns = true, and its data view is
\* the raw data in its original order.
C25_Defaults ==
    /\ sortBy = NULL
    /\ sortDirection = NULL
    /\ enablePagination = FALSE
    /\ page = 1
    /\ pageSize = 10
    /\ keyboardNavigation = TRUE
    /\ resizableColumns = TRUE
    /\ dataGetter = { [i \in 1..Len(data) |-> i] }
    /\ last.op = "data" => view = [i \in 1..Len(data) |-> i]

\* The data getter of a default table of three rows was read.
C25_Witness ==
    /\ last.op = "data"
    /\ Len(data) = 3
    /\ view = << 1, 2, 3 >>

----------------------------------------------------------------------------
(* Claims C26 - C27: the Synced cells (SpecSynced, SpecPage) *)

\* C26: a Synced cell given a static value or none reads value ?? defaultValue
\* at first; after a write of v the next read returns v and onChange has been
\* invoked with v. So for static sortBy / sortDirection / page / pageSize
\* props, reading the property right after writing it returns what was
\* written.
C26_SelfOwnedReadAfterWrite ==
    /\ \A given \in BOOLEAN, value \in SyncedPageValues, defaultValue \in SyncedPageValues :
          /\ SyncedNew(given, FALSE, value, defaultValue).owned
          /\ SyncedCurrent(SyncedNew(given, FALSE, value, defaultValue))
                = IF given THEN value ELSE defaultValue
          /\ \A v \in SyncedPageValues :
                SyncedCurrent(SyncedWrite(SyncedNew(given, FALSE, value, defaultValue), v)) = v
    /\ (last.op = "set sortBy" /\ sortBySynced.owned) =>
          /\ sortBy = last.arg
          /\ emitted = << << "onSortChange", last.arg, sortDirection >> >>
    /\ (last.op = "set sortDirection" /\ sortDirectionSynced.owned) =>
          /\ sortDirection = last.arg
          /\ emitted = << << "onSortChange", sortBy, last.arg >> >>
    /\ (last.op = "set page" /\ pageSynced.owned) =>
          /\ page = last.arg
          /\ emitted = << << "onPageChange", last.arg >> >>
    /\ (last.op = "set pageSize" /\ pageSizeSynced.owned) =>
          /\ pageSize = last.arg
          /\ emitted = << << "onPageSizeChange", last.arg >> >>

\* table.page = 2 on a table whose four props are static or absent changed
\* the page from 1 to 2.
C26_Witness ==
    /\ last.op = "set page"
    /\ sortBySynced.owned /\ sortDirectionSynced.owned
    /\ pageSynced.owned /\ pageSizeSynced.owned
    /\ last.pre.page = 1
    /\ page = 2

\* C27: a Synced cell given a getter reads the getter's result, and a write of
\* v invokes onChange(v) without changing what is read. So when page is a
\* getter, nextPage / prevPage / goToPage (and the page setter) invoke
\* onPageChange with the target page while page keeps the getter's value.
C27_GetterBoundWrite ==
    /\ \A value \in PageValues, v \in PageValues :
          /\ ~SyncedNew(TRUE, TRUE, value, 1).owned
          /\ SyncedCurrent(SyncedNew(TRUE, TRUE, value, 1)) = value
          /\ SyncedCurrent(SyncedWrite(SyncedNew(TRUE, TRUE, value, 1), v)) = value
    /\ (last.op \in {"nextPage", "prevPage", "goToPage", "set page"} /\ ~pageSynced.owned) =>
          page = last.pre.page
    /\ (last.op = "set page" /\ ~pageSynced.owned) =>
          emitted = << << "onPageChange", last.arg >> >>
    /\ (last.op = "nextPage" /\ ~pageSynced.owned /\ page < totalPages) =>
          emitted = << << "onPageChange", page + 1 >> >>
    /\ (last.op = "prevPage" /\ ~pageSynced.owned /\ page > 1) =>
          emitted = << << "onPageChange", page - 1 >> >>
    /\ (last.op = "goToPage" /\ ~pageSynced.owned) =>
          ((last.arg >= 1 /\ last.arg <= totalPages)
              => emitted = << << "onPageChange", last.arg >> >>)
    /\ (last.op = "set pageSize" /\ ~pageSizeSynced.owned) =>
          /\ pageSize = last.pre.pageSize
          /\ emitted = << << "onPageSizeChange", last.arg >> >>

\* prevPage() on a table whose page getter returns 2: onPageChange(1) was
\* invoked and page still reads 2.
C27_Witness ==
    /\ last.op = "prevPage"
    /\ ~pageSynced.owned
    /\ page = 2
    /\ emitted = << << "onPageChange", 1 >> >>

----------------------------------------------------------------------------
(* Claim C28: builders and getters write nothing (SpecRender) *)

\* The calls that only build attributes or read.
BuilderOps ==
    { "root", "header", "headerRow", "body", "footer", "paginationAttrs", "emptyState",
      "getRow", "getCell", "getHeaderCell", "getResizeHandle",
      "data", "totalPages", "getColumnWidth", "getCellContent" }

\* The state of the engine: sort, page, pageSize, focus cursor, column widths
\* and the resize session with what it left in the document.
EngineState ==
    << sortBySynced, sortDirectionSynced, pageSynced, pageSizeSynced, focusedCell,
       columnWidths, isResizing, resizingColumnId, resizeStartX, resizeStartWidth,
       listeners, bodyResizingClass, bodyCursor, pendingFrames, pendingTimeouts,
       pendingFocus >>

\* C28: a call of an attribute builder (root, header, headerRow, body,
\* footer, paginationAttrs, emptyState, getRow, getCell, getHeaderCell,
\* getResizeHandle) or of a read-only getter (data, totalPages,
\* getColumnWidth, getCellContent) leaves the whole engine state as it was:
\* sort state, page, pageSize, focus cursor, column widths, resize session.
C28_BuildersWriteNothing ==
    [][ last'.op \in BuilderOps => EngineState' = EngineState ]_vars

\* getCell(0, 1) was called on a table that is sorted, on page 2, with the
\* cursor on another cell, a width override and a resize session open: the
\* cell is not tabbable and the cursor is where it was.
C28_Witness ==
    /\ last.op = "getCell"
    /\ last.arg = << 0, 1 >>
    /\ returned.tabindex = << 0 - 1 >>
    /\ focusedCell = Cell(1, 1)
    /\ sortBy = "name"
    /\ page = 2
    /\ "name" \in DOMAIN columnWidths
    /\ isResizing

----------------------------------------------------------------------------
(* Claim C29: the supplied data (SpecData) *)

\* C29: no operation of the table mutates the supplied data: across every
\* toggleSort, nextPage, prevPage, goToPage and read of the data getter the
\* raw array has the same rows in the same order, each row unmodified.
C29_DataNeverMutated ==
    [][ data' = data ]_vars

\* A read of data returned the rows in another order than supplied (row 2
\* before row 1) and the supplied array still starts with its own first row.
C29_Witness ==
    /\ last.op = "data"
    /\ sortBy # NULL
    /\ sortDirection # NULL
    /\ Len(view) = 2
    /\ view[1] > view[2]
    /\ Len(data) = 3

----------------------------------------------------------------------------
(* Claim C30: navigation keeps the page in range (SpecNav) *)

\* C30: with the raw data, pageSize and the pagination flag fixed and the
\* page starting in 1..totalPages, every sequence of nextPage, prevPage and
\* goToPage(n), for any integer n, keeps 1 <= page <= totalPages.
C30_NavigationKeepsRange ==
    /\ page >= 1
    /\ page <= totalPages

\* goToPage was called with a target above totalPages on the last page of a
\* table of several pages whose page cell is self-owned: the page is the one
\* it was.
C30_Witness ==
    /\ last.op = "goToPage"
    /\ last.arg > totalPages
    /\ pageSynced.owned
    /\ totalPages > 1
    /\ last.pre.page = totalPages
    /\ page = last.pre.page

----------------------------------------------------------------------------
(* Claim C31: the pages of the sorted view (SpecPages) *)

\* The data views of pages p..lastPage, one after the other, when the sort
\* produced s.
RECURSIVE ConcatPages(_, _, _)
ConcatPages(s, p, lastPage) ==
    IF p > lastPage THEN << >>
    ELSE dataOfPage(s, p) \o ConcatPages(s, p + 1, lastPage)

\* C31: with pagination enabled, the data views of pages 1..totalPages, one
\* after the other, are the full sorted view (what the data getter returns
\* with pagination disabled), so each raw row is on exactly one page.
\* (A page past Len(s) + 1 starts behind the last row and is empty, so the
\* pages up to there decide.)
C31_PagesCoverSortedView ==
    enablePagination =>
        \A s \in getSortedData(data) :
            ConcatPages(s, 1, Min(totalPages, Len(s) + 1)) = s

----------------------------------------------------------------------------
(* Claims C32 - C33: the moves of a drag (SpecResize) *)

\* C32: during a resize session on column c that started at pointer X0 with
\* measured header width W0, a mouse / touch move to X stores
\* clamp(W0 + (X - X0), minWidth, maxWidth) as the width of c, whatever the
\* earlier moves of the session were, and changes no other column's width.
C32_MoveStoresWidth ==
    [][ \A c \in ColumnIds, x \in ClientXs :
          ( /\ pressed # Nullish
            /\ pressed[1].columnId = c
            /\ \/ (last'.op = "mousemove" /\ last'.arg = x)
               \/ (last'.op = "touchmove" /\ last'.arg = << x >>) ) =>
              /\ c \in DOMAIN columnWidths'
              /\ columnWidths'[c] =
                    Clamped(c, pressed[1].startWidth + (x - pressed[1].startX))
              /\ \A other \in (DOMAIN columnWidths') \ {c} :
                    /\ other \in DOMAIN columnWidths
                    /\ columnWidths'[other] = columnWidths[other] ]_vars

\* The session on "name" started at X0 = 60 with W0 = 100; the last move, to
\* X = 0, stored max(50, 100 - 60) = 50 while "rank" kept the width of an
\* earlier session.
C32_Witness ==
    /\ last.op \in {"mousemove", "touchmove"}
    /\ pressed = << [columnId |-> "name", startX |-> 60, startWidth |-> 100] >>
    /\ isResizing
    /\ "rank" \in DOMAIN columnWidths
    /\ "name" \in DOMAIN columnWidths
    /\ columnWidths["name"] = 50

\* C33: at most one column is resized at a time. A second pointer-down, on
\* the handle of column B while a session is active, supersedes the old
\* bookkeeping: resizingColumnId = B with B's start X and B's measured start
\* width; every later move resizes only the column of the current session;
\* and a release that ends the session leaves no document listener of either
\* gesture attached. (The listeners of a gesture stay attached until its
\* release, so listeners found after the press belong to a session that was
\* active before it, or to the press itself.)
C33_SecondPressSupersedes ==
    /\ ( /\ last.op = "onmousedown"
          /\ last.pre.isResizing
          /\ listeners # NoListeners
          /\ MayResize(last.arg) ) =>
          /\ isResizing
          /\ resizingColumnId = last.arg
          /\ pressed # Nullish
          /\ pressed[1].columnId = last.arg
          /\ resizeStartX = pressed[1].startX
          /\ resizeStartWidth = pressed[1].startWidth
    /\ (last.op \in {"mousemove", "touchmove"} /\ isResizing) =>
          \A i \in 1..Len(emitted) : emitted[i][2] = resizingColumnId
    /\ (last.op \in ReleaseOps /\ ~isResizing) => listeners = NoListeners

----------------------------------------------------------------------------
(* Claim C34: the transfer of DOM focus (SpecTransfer) *)

\* C34: the arrow-key handler stores the focus cursor at once and only
\* schedules the DOM focus call for the cell it stored; after every scheduled
\* focus call has run, however many keys were handled before, the cell that
\* has DOM focus is the cell at the focus cursor (when the document holds
\* that cell; a call whose cell is not in the document does nothing).
C34_FocusFollowsCursor ==
    /\ ( /\ last.op = "cell onkeydown"
          /\ keyboardNavigation
          /\ last.arg.key \in ArrowKeys ) =>
            /\ pendingFocus # << >>
            /\ focusedCell = << pendingFocus[Len(pendingFocus)] >>
    /\ ( /\ last.op = "focus step"
          /\ pendingFocus = << >>
          /\ focusedCell # Nullish
          /\ Rendered(focusedCell[1].rowIndex, focusedCell[1].colIndex) ) =>
            activeElement = Element("own", focusedCell[1].rowIndex, focusedCell[1].colIndex)

----------------------------------------------------------------------------
(* Claim C35: the layout signal after a gesture (SpecResize) *)

\* window.dispatchEvent(new Event("resize"))
LayoutSignal == << "window.dispatchEvent", "resize" >>

\* C35: a release that ends a resize gesture dispatches the window "resize"
\* event exactly once, and not in the release handler but in a later
\* macrotask: the release leaves the session Idle and no listener attached,
\* dispatches nothing itself and defers exactly one dispatch; the event is
\* dispatched by the deferred callbacks only, once by each.
C35_OneLayoutSignal ==
    [][ /\ (last'.op \in ReleaseOps /\ isResizing /\ ~isResizing') =>
              /\ listeners' = NoListeners
              /\ emitted' = << >>
              /\ pendingTimeouts' = pendingTimeouts + 1
        /\ (last'.op = "timeout") =>
              /\ emitted' = << LayoutSignal >>
              /\ pendingTimeouts' = pendingTimeouts - 1
        /\ (last'.op # "timeout") =>
              \A i \in 1..Len(emitted') : emitted'[i] # LayoutSignal ]_vars

----------------------------------------------------------------------------
(* Claim C36: keyboardNavigation (SpecKeyboard) *)

\* C36: while keyboardNavigation is false, no key event on a cell changes the
\* focus cursor or schedules a focus transfer, no key event on a header cell
\* changes the sort state or notifies, and getCell returns no tabindex; while
\* it is true, a key event on a header cell changes the sort state only by a
\* toggleSort of a column declared sortable.
C36_KeyboardNavigationFlag ==
    [][ /\ ~keyboardNavigation =>
              /\ focusedCell' = focusedCell
              /\ pendingFocus' = pendingFocus
              /\ sortBy' = sortBy
              /\ sortDirection' = sortDirection
              /\ emitted' = << >>
              /\ last'.op = "getCell" => returned'.tabindex = Nullish
        /\ keyboardNavigation =>
              /\ (sortBy' # sortBy \/ sortDirection' # sortDirection) =>
                    last'.op = "toggleSort"
              /\ last'.op = "toggleSort" => DeclaredSortable(last'.arg)
              /\ last'.op = "getCell" => returned'.tabindex # Nullish ]_vars

\* With keyboardNavigation false: getCell returned no tabindex after key
\* events on cells and headers, and nothing is sorted or focused.
C36_Witness ==
    /\ ~keyboardNavigation
    /\ last.op = "getCell"
    /\ returned.tabindex = Nullish
    /\ focusedCell = Nullish
    /\ sortBy = NULL

----------------------------------------------------------------------------
(* Claim C37: malformed color input (SpecPicker) *)

\* C37: a string that is not a well-formed #RRGGBB hex code, given to the
\* color setter or typed into the text input, leaves color, hsv and
\* saturationPosition as they were and calls no onColorChange.
C37_MalformedColorIgnored ==
    [][ (last'.op \in {"set color", "input oninput"} /\ ~MatchesHex(last'.arg)) =>
            /\ color' = color
            /\ hsv' = hsv
            /\ saturationPosition' = saturationPosition
            /\ emitted' = << >> ]_vars

\* C37, the text input alone: a string that is no well-formed hex code
\* changes nothing and notifies nobody.
C37_InputIgnoresMalformed ==
    [][ last'.op = "input oninput" =>
            /\ ~MatchesHex(last'.arg)
            /\ UNCHANGED pickerVars
            /\ emitted' = << >> ]_vars

----------------------------------------------------------------------------
(* Claim C38: what sorting and cell navigation leave alone (SpecFrame) *)

\* The page, the page size, the stored widths and the resize session.
PagingAndResizing ==
    << pageSynced, pageSizeSynced, columnWidths, isResizing, resizingColumnId,
       resizeStartX, resizeStartWidth, listeners >>

\* C38: toggleSort changes nothing but the sort state and a key event on a
\* cell nothing but the focus cursor (and the focus call it schedules):
\* neither changes the page, the page size, a stored width or the resize
\* session; the page a sort was toggled on stays, and ArrowDown on the last
\* row of a page leaves the page.
C38_SortAndNavigationFrame ==
    [][ /\ last'.op = "toggleSort" =>
              /\ UNCHANGED PagingAndResizing
              /\ UNCHANGED << focusedCell, pendingFocus, activeElement, data, pagination >>
              /\ page' = page
        /\ last'.op = "cell onkeydown" =>
              /\ UNCHANGED PagingAndResizing
              /\ UNCHANGED << sortBySynced, sortDirectionSynced, activeElement, data,
                              pagination >>
              /\ emitted' = << >>
              /\ page' = page ]_vars

\* On page 2, sorted by a toggleSort, with a width stored and a resize
\* session open: ArrowDown on the last row of the page has left the page.
C38_Witness ==
    /\ last.op = "cell onkeydown"
    /\ last.arg.key = "ArrowDown"
    /\ last.arg.rowIndex = DataLength - 1
    /\ page = 2
    /\ last.pre.page = 2
    /\ sortBy # NULL
    /\ columnWidths # EmptyMap
    /\ isResizing
    /\ focusedCell # Nullish

----------------------------------------------------------------------------
(* Claim C39: the fields of the resize session (SpecResize) *)

\* C39: isResizing is true exactly when resizingColumnId is not null, and
\* while isResizing is false resizeStartX and resizeStartWidth are 0.
C39_SessionFieldsAgree ==
    /\ isResizing <=> resizingColumnId # NULL
    /\ ~isResizing => (resizeStartX = 0 /\ resizeStartWidth = 0)

\* A session was open, a width is stored, and a release has ended the session.
C39_Witness ==
    /\ last.op \in {"mouseup", "touchend"}
    /\ last.pre.isResizing
    /\ ~isResizing
    /\ resizingColumnId = NULL
    /\ columnWidths # EmptyMap

----------------------------------------------------------------------------
(* Claim C40: the notifications of a toggleSort (SpecSort) *)

\* C40: every onSortChange emitted during a toggleSort carries the sortBy and
\* sortDirection that hold when the call returns, and a toggleSort that
\* changed the sort state emitted exactly one, also when it went from one
\* sorted column to another.
C40_OneNotificationPerToggle ==
    last.op = "toggleSort" =>
        /\ \A i \in 1..Len(emitted) : emitted[i] = handleSortChange(sortBy, sortDirection)
        /\ (sortBy # last.pre.sortBy \/ sortDirection # last.pre.sortDirection)
              => Len(emitted) = 1

\* C40, the toggles of the current sort column alone: one notification, with
\* the pair the call leaves, on self-owned cells.
C40_SameColumnNotifiesOnce ==
    ( /\ last.op = "toggleSort" /\ DeclaredSortable(last.arg) /\ SortCellsOwned
      /\ last.pre.sortBy = last.arg )
        => emitted = << handleSortChange(sortBy, sortDirection) >>

====
